---- MODULE Spec2Model ----
(***************************************************************************)
(* CognitoTable content script: scan orchestration (scanWithRetry,         *)
(* scanAndProcessTables), virtualized-table recovery                       *)
(* (extractVirtualizedTableData and its strategies), the badge scans with  *)
(* their isAnalyzing guard, the popup that requests the scans, and the     *)
(* pure helpers they use.                                                  *)
(*                                                                         *)
(* Text is modelled as a sequence of one-character strings, so that        *)
(* join('|'), trim() and the content signature are computed character by   *)
(* character as the code computes them.                                    *)
(***************************************************************************)
EXTENDS Integers, Sequences, FiniteSets, TLC

----------------------------------------------------------------------------
(* Generic helpers                                                         *)

Max2(a, b) == IF a >= b THEN a ELSE b
Min2(a, b) == IF a <= b THEN a ELSE b

RECURSIVE MaxLenOf(_)
\* Math.max(...rows.map(r => r.length)) for a non-empty list of rows
MaxLenOf(rows) ==
    IF rows = <<>> THEN 0
    ELSE Max2(Len(Head(rows)), MaxLenOf(Tail(rows)))

RECURSIVE JoinWith(_, _)
\* Array.prototype.join: the parts separated by sep
JoinWith(parts, sep) ==
    IF parts = <<>> THEN <<>>
    ELSE IF Len(parts) = 1 THEN parts[1]
    ELSE parts[1] \o sep \o JoinWith(Tail(parts), sep)

\* row.join('|'): the row fingerprint
RowKey(row) == JoinWith(row, <<"|">>)

Digit(d) == <<"0", "1", "2", "3", "4", "5", "6", "7", "8", "9">>[d + 1]

RECURSIVE Dec(_)
\* decimal rendering of a natural number (template literal `${n}`)
Dec(n) == IF n < 10 THEN <<Digit(n)>> ELSE Dec(n \div 10) \o <<Digit(n % 10)>>

IsSpace(ch) == ch = " "

RECURSIVE TrimLeft(_)
TrimLeft(s) == IF s # <<>> /\ IsSpace(Head(s)) THEN TrimLeft(Tail(s)) ELSE s

RECURSIVE TrimRight(_)
TrimRight(s) ==
    IF s # <<>> /\ IsSpace(s[Len(s)]) THEN TrimRight(SubSeq(s, 1, Len(s) - 1)) ELSE s

\* String.prototype.trim
Trim(s) == TrimRight(TrimLeft(s))

\* `Column ${i}`
ColumnName(i) == <<"C", "o", "l", "u", "m", "n", " ">> \o Dec(i)

\* Array.from({length: n}, (_, i) => `Column ${i + 1}`)
SyntheticHeaders(n) == [i \in 1..n |-> ColumnName(i)]

----------------------------------------------------------------------------
(* TableData: headers and rows.  NoData is the null a routine returns.     *)

NoData == [ok |-> FALSE, headers |-> <<>>, rows |-> <<>>]

MkData(h, r) == [ok |-> TRUE, headers |-> h, rows |-> r]

\* uniqueCount of scanAndProcessTables: size of the set of row fingerprints
UniqueCount(rows) == Cardinality({RowKey(rows[i]) : i \in 1..Len(rows)})

RECURSIVE SignatureRows(_, _)
\* the `R${index}:` parts of the first rows, index counted from `index`
SignatureRows(rows, index) ==
    IF rows = <<>> THEN <<>>
    ELSE <<(<<"R">> \o Dec(index) \o <<":">> \o RowKey(Head(rows)))>>
         \o SignatureRows(Tail(rows), index + 1)

\* Utils.createTableContentSignature
CreateTableContentSignature(tableData) ==
    LET hPart == IF Len(tableData.headers) > 0
                 THEN << <<"H", ":">> \o RowKey(tableData.headers) >>
                 ELSE <<>>
        rowsToCheck == SubSeq(tableData.rows, 1, Min2(3, Len(tableData.rows)))
        rParts == SignatureRows(rowsToCheck, 0)
        cPart == << <<"C", "o", "u", "n", "t", ":">> \o Dec(Len(tableData.rows))
                    \o <<"x">> \o Dec(Len(tableData.headers)) >>
    IN JoinWith(hPart \o rParts \o cPart, <<":", ":">>)

----------------------------------------------------------------------------
(* VirtualizedTableHandler._normalizeData                                  *)

\* normalize = arr => (arr || []).map(v => String(v).trim())
NormalizeCells(arr) == [i \in 1..Len(arr) |-> Trim(arr[i])]

RECURSIVE DedupRows_NoSeenTest(_, _)
DedupRows_NoSeenTest(rows, seen) ==
    IF rows = <<>> THEN <<>>
    ELSE <<Head(rows)>> \o DedupRows_NoSeenTest(Tail(rows), seen \cup {RowKey(Head(rows))})

RECURSIVE DedupRows(_, _)
\* rows.filter(r => first occurrence of r.join('|'))
DedupRows(rows, seen) ==
    IF rows = <<>> THEN <<>>
    ELSE LET key == RowKey(Head(rows))
         IN IF key \in seen
            THEN DedupRows(Tail(rows), seen)
            ELSE <<Head(rows)>> \o DedupRows(Tail(rows), seen \cup {key})

\* a row that is cell-wise identical to the normalized headers
EqualsHeaders(row, headersNorm) ==
    /\ Len(row) = Len(headersNorm)
    /\ \A i \in 1..Len(row) : row[i] = headersNorm[i]

NormalizeData(data) ==
    IF ~data.ok THEN data
    ELSE LET headersNorm == NormalizeCells(data.headers)
             rows0 == [i \in 1..Len(data.rows) |-> NormalizeCells(data.rows[i])]
             rows1 == IF Len(headersNorm) > 0 /\ Len(rows0) > 0
                      THEN SelectSeq(rows0, LAMBDA r : ~EqualsHeaders(r, headersNorm))
                      ELSE rows0
         IN MkData(data.headers, DedupRows(rows1, {}))

----------------------------------------------------------------------------
(* TableAnalyzer.analyzeImplicitTable over the children a container        *)
(* currently renders.  A child is [cells |-> extractCellsFromElement(child),*)
(* hdr |-> looksLikeHeader(child)].                                        *)

Child(cells, hdr) == [cells |-> cells, hdr |-> hdr]

AnalyzeImplicitTable(children) ==
    IF children = <<>> THEN NoData
    ELSE LET headerDetected == Len(children[1].cells) > 0 /\ children[1].hdr
             rest == IF headerDetected THEN Tail(children) ELSE children
             kept == SelectSeq(rest, LAMBDA c : Len(c.cells) > 0)
             rows == [i \in 1..Len(kept) |-> kept[i].cells]
             headers == IF headerDetected THEN children[1].cells
                        ELSE IF Len(rows) > 0 THEN SyntheticHeaders(MaxLenOf(rows))
                        ELSE <<>>
         IN MkData(headers, rows)

----------------------------------------------------------------------------
(* DomUtils.calculateDOMPosition.  path[d + 1] is the index, among its     *)
(* siblings, of the ancestor at depth d (the element itself at depth 0),   *)
(* up to the root.  The code adds index * 0.1^depth; positions are kept    *)
(* as integers scaled by 10^PosDigits.                                     *)

MaxDepth == 3

RECURSIVE Pow10(_)
Pow10(n) == IF n <= 0 THEN 1 ELSE 10 * Pow10(n - 1)

RECURSIVE DOMPositionFrom(_, _)
\* while (current && current !== root && depth < 20): position += index * 0.1^depth
DOMPositionFrom(path, depth) ==
    IF path = <<>> \/ depth >= 20 THEN 0
    ELSE Head(path) * Pow10(MaxDepth - depth) + DOMPositionFrom(Tail(path), depth + 1)

CalculateDOMPosition(path) == DOMPositionFrom(path, 0)

----------------------------------------------------------------------------
(* Array.prototype.sort is stable: insertion keeps equal elements in their *)
(* original order.                                                         *)

\* comparator of performScrollExtraction: by scroll, then by discovery order
ScrollLess_DiscoveryOrderOnly(a, b) == a.order < b.order

\* the comparator of allRowsWithPositions.sort
ScrollLess(a, b) ==
    IF a.scroll # b.scroll THEN a.scroll < b.scroll ELSE a.order < b.order

RECURSIVE InsertByScroll(_, _)
InsertByScroll(sorted, x) ==
    IF sorted = <<>> THEN <<x>>
    ELSE IF ScrollLess(x, Head(sorted)) THEN <<x>> \o sorted
    ELSE <<Head(sorted)>> \o InsertByScroll(Tail(sorted), x)

RECURSIVE SortByScroll(_)
SortByScroll(s) ==
    IF s = <<>> THEN <<>>
    ELSE InsertByScroll(SortByScroll(SubSeq(s, 1, Len(s) - 1)), s[Len(s)])

RECURSIVE InsertByPosition(_, _)
InsertByPosition(sorted, x) ==
    IF sorted = <<>> THEN <<x>>
    ELSE IF x.domPosition < Head(sorted).domPosition THEN <<x>> \o sorted
    ELSE <<Head(sorted)>> \o InsertByPosition(Tail(sorted), x)

RECURSIVE SortByPosition(_)
\* rowsWithPositions.sort((a, b) => a.domPosition - b.domPosition)
SortByPosition(s) ==
    IF s = <<>> THEN <<>>
    ELSE InsertByPosition(SortByPosition(SubSeq(s, 1, Len(s) - 1)), s[Len(s)])

----------------------------------------------------------------------------
(* VirtualizedTableHandler.performDeepTableScan over the row candidates    *)
(* the selectors match under the search root.  A candidate is              *)
(* [cells, hdr, visible, path].                                            *)

RowCandidate(cells, hdr, visible, path) ==
    [cells |-> cells, hdr |-> hdr, visible |-> visible, path |-> path]

RECURSIVE DeepCollect(_, _, _, _)
\* the for-loop: acc is rowsWithPositions, headers the header pick-up
DeepCollect(cands, seenRowKeys, acc, headers) ==
    IF cands = <<>> THEN [rows |-> acc, headers |-> headers]
    ELSE LET c == Head(cands)
             rowKey == RowKey(c.cells)
         IN IF ~c.visible THEN DeepCollect(Tail(cands), seenRowKeys, acc, headers)
            ELSE IF Len(c.cells) > 0 /\ rowKey \notin seenRowKeys
            THEN DeepCollect(Tail(cands), seenRowKeys \cup {rowKey},
                     Append(acc, [data |-> c.cells,
                                  domPosition |-> CalculateDOMPosition(c.path)]),
                     IF Len(c.cells) > Len(headers) /\ c.hdr THEN c.cells ELSE headers)
            ELSE DeepCollect(Tail(cands), seenRowKeys, acc, headers)

PerformDeepTableScan(cands) ==
    LET got == DeepCollect(cands, {}, <<>>, <<>>)
        sorted == SortByPosition(got.rows)
        sortedRows == [i \in 1..Len(sorted) |-> sorted[i].data]
    IN IF Len(got.rows) > 0
       THEN MkData(IF Len(got.headers) > 0 THEN got.headers
                   ELSE SyntheticHeaders(MaxLenOf(sortedRows)),
                   sortedRows)
       ELSE NoData

----------------------------------------------------------------------------
(* TableAnalyzer.detectHeaderRowsEnd.  A row is the sequence of its td/th  *)
(* cells; a cell is [th, colspan, rowspan, text], text being what          *)
(* extractCellText returns for it.                                         *)

Cell(th, colspan, rowspan, text) ==
    [th |-> th, colspan |-> colspan, rowspan |-> rowspan, text |-> text]

IsDigitOrComma(ch) == ch \in {"0", "1", "2", "3", "4", "5", "6", "7", "8", "9", ","}
IsDigit(ch) == ch \in {"0", "1", "2", "3", "4", "5", "6", "7", "8", "9"}

\* .replace(/[,\s]/g, '')
StripCommasAndSpaces(s) == SelectSeq(s, LAMBDA ch : ch # "," /\ ~IsSpace(ch))

RECURSIVE RunLength(_, _)
\* length of the longest prefix of s whose characters satisfy the class
RunLength(s, digitsOnly) ==
    IF s = <<>> THEN 0
    ELSE IF (IF digitsOnly THEN IsDigit(Head(s)) ELSE IsDigitOrComma(Head(s)))
         THEN 1 + RunLength(Tail(s), digitsOnly)
         ELSE 0

\* /^-?[\d,]+(\.\d+)?$/.test(s)
MatchesNumeric(s) ==
    LET body == IF s # <<>> /\ Head(s) = "-" THEN Tail(s) ELSE s
        n == RunLength(body, FALSE)
        rest == SubSeq(body, n + 1, Len(body))
    IN /\ n >= 1
       /\ \/ rest = <<>>
          \/ /\ Head(rest) = "."
             /\ Len(rest) >= 2
             /\ RunLength(Tail(rest), TRUE) = Len(rest) - 1

IsNonNumericCell(cell) == ~MatchesNumeric(StripCommasAndSpaces(Trim(cell.text)))

IsHeaderLike(cells) ==
    LET hasThCells == \E i \in 1..Len(cells) : cells[i].th
        hasSpans == \E i \in 1..Len(cells) : cells[i].colspan > 1 \/ cells[i].rowspan > 1
        nonNumericCells == SelectSeq(cells, IsNonNumericCell)
    IN hasThCells \/ hasSpans \/ (10 * Len(nonNumericCells) > 7 * Len(cells))

HeaderScanLimit == 6

RECURSIVE HeaderLoop(_, _, _)
\* the for-loop of detectHeaderRowsEnd from index i (0-based) on
HeaderLoop(rows, i, headerRowsCount) ==
    IF i >= Min2(Len(rows), HeaderScanLimit) THEN headerRowsCount
    ELSE LET cells == rows[i + 1]
         IN IF Len(cells) = 0 THEN HeaderLoop(rows, i + 1, headerRowsCount)
            ELSE IF IsHeaderLike(cells) THEN HeaderLoop(rows, i + 1, i + 1)
            ELSE IF headerRowsCount > 0 THEN headerRowsCount
            ELSE HeaderLoop(rows, i + 1, headerRowsCount)

DetectHeaderRowsEnd(rows) ==
    LET headerRowsCount == HeaderLoop(rows, 0, 0)
    IN IF headerRowsCount = 0
       THEN IF Len(rows) > 0 /\ (\E i \in 1..Len(rows[1]) : rows[1][i].th) THEN 1 ELSE 0
       ELSE headerRowsCount

----------------------------------------------------------------------------
(* The document the content script runs in.                                *)
(*                                                                         *)
(* A candidate is one element the scan visits: a <table> found by          *)
(* findExplicitTables or a container returned by findImplicitTables.       *)
(*   explicit  what analyzeExplicitTable returns for a <table>             *)
(*   virt      what detectVirtualizedTable returns                         *)
(*   scrollers the scrollable ancestors findAllScrollableElements finds    *)
(*   head, items, win, zoomWin, driver: the children the container         *)
(*             renders: the head children, then `win` of its items         *)
(*             (`zoomWin` while the body is zoomed out) starting at the    *)
(*             item the scroll offset of `driver` has reached              *)
(*   deep      the row candidates of performDeepTableScan                  *)
(* A document lists its candidates in the order scanAndProcessTables       *)
(* visits them: the tables first, then the implicit candidates.            *)

A == <<"a">>
B == <<"b">>
C == <<"c">>
AB == <<"a", "|", "b">>

Targets == {"window", "e1"}

Candidate(kind, explicit, virt, scrollers, head, items, win, zoomWin, driver, deep) ==
    [kind |-> kind, explicit |-> explicit, virt |-> virt, scrollers |-> scrollers,
     head |-> head, items |-> items, win |-> win, zoomWin |-> zoomWin,
     driver |-> driver, deep |-> deep]

\* a <table> that is not virtualized
PlainTable(data) ==
    Candidate("explicit", data, FALSE, <<>>, <<>>, <<>>, 0, 0, "none", <<>>)

\* a container that renders all of its children, whatever the scroll offset
StaticList(head, items, virt, scrollers, deep) ==
    Candidate("implicit", NoData, virt, scrollers, head, items,
              Len(items), Len(items), "none", deep)

Item(cells) == Child(cells, FALSE)

HeadAB == <<Child(<<A, B>>, TRUE)>>

DataAB == MkData(<<A, B>>, << <<A, B>>, <<B, A>> >>)

\* no table at all: every attempt yields zero tables
DocEmpty ==
    [cands |-> <<>>, bodyScrollable |-> FALSE, winMax |-> 0,
     elMax |-> 0, rowHeight |-> 10, restricted |-> FALSE,
     iframes |-> <<[src |-> "x", sameOrigin |-> FALSE]>>]

\* static tables: a table, the same table again, a table without data rows,
\* a list with the content of the first table, a one-row list, another list
DocStatic ==
    [cands |-> << PlainTable(DataAB),
                  PlainTable(DataAB),
                  PlainTable(MkData(<<A>>, <<>>)),
                  StaticList(HeadAB, <<Item(<<A, B>>), Item(<<B, A>>)>>, FALSE, <<>>, <<>>),
                  StaticList(<<>>, <<Item(<<A>>)>>, FALSE, <<>>, <<>>),
                  StaticList(<<>>, <<Item(<<A, B>>), Item(<<AB>>), Item(<<C>>)>>,
                             FALSE, <<>>, <<>>) >>,
     bodyScrollable |-> FALSE, winMax |-> 0, elMax |-> 0, rowHeight |-> 10,
     restricted |-> FALSE, iframes |-> <<>>]

\* a virtualized list inside a scrollable element of a scrollable page: two
\* of its three items are rendered at a time
DocVirtual ==
    [cands |-> << Candidate("implicit", NoData, TRUE, <<"e1">>, HeadAB,
                            <<Item(<<A, B>>), Item(<<B, A>>), Item(<<C, C>>)>>,
                            2, 3, "e1", <<>>) >>,
     bodyScrollable |-> TRUE, winMax |-> 10, elMax |-> 10, rowHeight |-> 10,
     restricted |-> FALSE, iframes |-> <<>>]

\* containers that carry virtualization hints but render everything: one
\* table with a repeated row, whose rows the deep scan finds again together
\* with a further row, one list whose second child repeats the header child
DocHinted ==
    [cands |-> << Candidate("explicit",
                            MkData(<<A, B>>, << <<A, B>>, <<B, A>>, <<B, A>> >>),
                            TRUE, <<>>,
                            <<>>, <<Item(<<A, B>>), Item(<<B, A>>)>>, 2, 2, "none",
                            << RowCandidate(<<A, B>>, FALSE, TRUE, <<0>>),
                               RowCandidate(<<B, A>>, FALSE, TRUE, <<1>>),
                               RowCandidate(<<C, C>>, FALSE, TRUE, <<2>>),
                               RowCandidate(<<AB>>, FALSE, FALSE, <<3>>) >>),
                  StaticList(HeadAB, <<Item(<<A, B>>), Item(<<B, A>>), Item(<<C>>)>>,
                             TRUE, <<>>, <<>>) >>,
     bodyScrollable |-> TRUE, winMax |-> 0, elMax |-> 0, rowHeight |-> 10,
     restricted |-> FALSE, iframes |-> <<>>]

\* a document for which isRestrictedUrl is true; no content script runs in it
DocRestricted ==
    [cands |-> <<>>, bodyScrollable |-> FALSE, winMax |-> 0,
     elMax |-> 0, rowHeight |-> 10, restricted |-> TRUE, iframes |-> <<>>]

Documents == {DocEmpty, DocStatic, DocVirtual, DocHinted, DocRestricted}

----------------------------------------------------------------------------
(* State                                                                   *)

VARIABLES
    doc,            \* the document
    scrollTop,      \* scroll offset of the window viewport and of each element
    bodyStyle,      \* document.body.style: transform, transformOrigin, width, height
    isAnalyzing,    \* CognitoTableContentScript.isAnalyzing
    debounceTimer,  \* TRUE while the debounce timeout is pending
    badgeScan,      \* the performInitialScan/performIncrementalScan in flight
    badge,          \* count of the last updateBadge message
    cache,          \* tables of the last cacheTableData message
    scan,           \* the scanWithRetry call of the last getTables request
    popup,          \* the CognitoTablePopup instance
    probe,          \* the last call of a function of TableAnalyzer on its own
    elapsed,        \* ticks since the debounce timeout was set
    burst,          \* history: the last timeout replaced one that was pending
    dropped         \* history: the last timeout found isAnalyzing set, and no
                    \* mutation was observed since

vars == <<probe, elapsed, burst, dropped, doc, scrollTop, bodyStyle, isAnalyzing, debounceTimer, badgeScan,
          badge, cache, scan, popup>>

MaxRetries == 3
ScrollSteps == 10
MinRowsForAlternatives == 15

OriginalStyle == [transform |-> "", origin |-> "", width |-> "", height |-> ""]
ZoomedStyle == [transform |-> "scale(0.5)", origin |-> "0 0",
                width |-> "200%", height |-> "200%"]

NoCache == [valid |-> FALSE, ids |-> <<>>]

NoOffsets == [t \in Targets |-> 0]

Idle ==
    [pc |-> "idle", attempt |-> 0,
     \* scanAndProcessTables
     idx |-> 0, seenContent |-> {}, tableId |-> 0, found |-> <<>>, tableData |-> NoData,
     \* extractVirtualizedTableData
     tIdx |-> 0, originalScrollTop |-> 0, bestResult |-> NoData,
     originalStyles |-> OriginalStyle, zoomResult |-> NoData, zoomThrew |-> FALSE,
     \* performScrollExtraction
     step |-> 0, allRows |-> <<>>, seenRows |-> {}, headers |-> <<>>,
     \* history: whether an earlier scanWithRetry call ran, the messages sent,
     \* the tables of each finished attempt, the delays waited, the tables
     \* of the attempt in the order they reached the duplicate test; of the
     \* last recovery: the scroll offsets at its start and end, the targets it
     \* scrolled, the strategies that threw, the extraction it started from
     \* and what it returned
     again |-> FALSE, sent |-> <<>>, yields |-> <<>>, sleeps |-> 0, claimed |-> <<>>,
     before |-> NoOffsets, after |-> NoOffsets, touched |-> {}, threw |-> {},
     baseline |-> NoData, enhanced |-> NoData, recovered |-> FALSE]

NoProbe == [fn |-> "none"]

\* asked is history: the popup has sent a getTables message
Closed == [open |-> FALSE, scanInProgress |-> FALSE, detectedTables |-> <<>>,
           view |-> "closed", asked |-> FALSE]

MaxScroll(t) == IF t = "window" THEN doc.winMax ELSE doc.elMax

Init ==
    /\ doc \in Documents
    /\ scrollTop \in [Targets -> {0, 5}]
    /\ \A t \in Targets : scrollTop[t] <= MaxScroll(t)
    /\ bodyStyle = OriginalStyle
    /\ isAnalyzing = FALSE
    /\ debounceTimer = FALSE
    /\ badgeScan = "none"
    /\ badge = 0
    /\ cache = NoCache
    /\ scan = Idle
    /\ popup = Closed
    /\ probe = NoProbe
    /\ elapsed = 0
    /\ burst = FALSE
    /\ dropped = FALSE

----------------------------------------------------------------------------
(* Reading the document                                                    *)

\* the children a container renders with the given scroll offsets and style
ChildrenOf(c, offsets, style) ==
    LET w == IF style.transform = "scale(0.5)" THEN c.zoomWin ELSE c.win
        at == IF c.driver = "none" THEN 0 ELSE offsets[c.driver] \div doc.rowHeight
        first == Max2(0, Min2(at, Len(c.items) - w))
    IN c.head \o SubSeq(c.items, first + 1, Min2(Len(c.items), first + w))

\* findAllScrollableElements: the window first, then the scrollable ancestors
FindAllScrollableElements(c) ==
    (IF doc.bodyScrollable THEN <<"window">> ELSE <<>>) \o c.scrollers

\* the extraction scanAndProcessTables starts from
BaselineOf(c) ==
    IF c.kind = "explicit" THEN c.explicit
    ELSE AnalyzeImplicitTable(ChildrenOf(c, scrollTop, bodyStyle))

\* `if (!tableData || tableData.rows.length === 0) continue` for a table,
\* `rows.length <= 1` for an implicit candidate
TooSmall(c, tableData) ==
    \/ ~tableData.ok
    \/ Len(tableData.rows) <= (IF c.kind = "explicit" THEN 0 ELSE 1)

----------------------------------------------------------------------------
(* scanAndProcessTables: one candidate                                     *)

\* mutant of TableFound: the id is the position of the candidate
TableFound_IdOfCandidate(st, c, tableData) ==
    [action |-> "tableFound", attempt |-> st.attempt, id |-> st.idx,
     type |-> c.kind, data |-> tableData]

\* const tableObject = { id: tableId, type, ..., data: tableData }
TableFound(st, c, tableData) ==
    [action |-> "tableFound", attempt |-> st.attempt, id |-> st.tableId + 1,
     type |-> c.kind, data |-> tableData]

\* mutant of EmitTable: no duplicate test
EmitTable_NoDuplicateTest(st, c, tableData) ==
    LET signature == CreateTableContentSignature(tableData)
    IN [st EXCEPT !.pc = "process", !.idx = @ + 1, !.tableData = NoData,
                  !.claimed = Append(@, [data |-> tableData, signature |-> signature]),
                  !.seenContent = @ \cup {signature},
                  !.tableId = @ + 1,
                  !.sent = Append(@, TableFound(st, c, tableData)),
                  !.found = Append(@, TableFound(st, c, tableData))]

\* from Utils.createTableContentSignature to allFoundTables.push
EmitTable(st, c, tableData) ==
    LET signature == CreateTableContentSignature(tableData)
    IN IF signature \in st.seenContent
       THEN [st EXCEPT !.pc = "process", !.idx = @ + 1, !.tableData = NoData,
                       !.claimed = Append(@, [data |-> tableData, signature |-> signature])]
       ELSE [st EXCEPT !.pc = "process", !.idx = @ + 1, !.tableData = NoData,
                       !.claimed = Append(@, [data |-> tableData, signature |-> signature]),
                       !.seenContent = @ \cup {signature},
                       !.tableId = @ + 1,
                       !.sent = Append(@, TableFound(st, c, tableData)),
                       !.found = Append(@, TableFound(st, c, tableData))]

\* mutant of ChooseData: the raw row counts are compared
ChooseData_RawRowCount(tableData, enhancedData) ==
    IF enhancedData.ok /\ Len(enhancedData.rows) > Len(tableData.rows)
    THEN enhancedData
    ELSE tableData

\* `if (enhancedData) { ... if (enhUnique > baseUnique) tableData = enhancedData }`
ChooseData(tableData, enhancedData) ==
    IF enhancedData.ok /\ UniqueCount(enhancedData.rows) > UniqueCount(tableData.rows)
    THEN enhancedData
    ELSE tableData

\* a result replaces the best one only with strictly more rows
Better_AtLeastAsMany(cleaned, bestResult) ==
    IF cleaned.ok /\ (~bestResult.ok \/ Len(cleaned.rows) >= Len(bestResult.rows))
    THEN cleaned
    ELSE bestResult

\* if (cleaned && (!bestResult || cleaned.rows.length > bestResult.rows.length))
\*     bestResult = cleaned
Better(cleaned, bestResult) ==
    IF cleaned.ok /\ (~bestResult.ok \/ Len(cleaned.rows) > Len(bestResult.rows))
    THEN cleaned
    ELSE bestResult

\* the end of extractVirtualizedTableData and the rest of the loop body of
\* scanAndProcessTables; offsets are the scroll offsets it returns with
FinishRecovery(st, c, bestResult, offsets) ==
    LET fallback == IF bestResult.ok THEN bestResult
                    ELSE AnalyzeImplicitTable(ChildrenOf(c, offsets, bodyStyle))
        enhancedData == NormalizeData(fallback)
        done == EmitTable(st, c, ChooseData(st.tableData, enhancedData))
    IN [done EXCEPT !.bestResult = NoData, !.tIdx = 0,
                    !.zoomResult = NoData, !.zoomThrew = FALSE,
                    !.after = offsets, !.enhanced = enhancedData,
                    !.recovered = TRUE]

\* an exception leaves extractVirtualizedTableData, scanAndProcessTables and
\* scanWithRetry: the listener answers { error }
Reject(st, offsets, strategy) ==
    [st EXCEPT !.pc = "failed", !.bestResult = NoData, !.tIdx = 0,
               !.zoomResult = NoData, !.zoomThrew = FALSE, !.tableData = NoData,
               !.after = offsets, !.threw = @ \cup {strategy}, !.recovered = TRUE]

\* a new scanAndProcessTables call
StartAttempt(st, n) ==
    [st EXCEPT !.pc = "process", !.attempt = n, !.idx = 1, !.seenContent = {},
               !.tableId = 0, !.found = <<>>, !.claimed = <<>>]

----------------------------------------------------------------------------
(* The popup                                                               *)

\* handleTableFound
HandleTableFound(p, id) ==
    IF \E i \in 1..Len(p.detectedTables) : p.detectedTables[i] = id
    THEN p
    ELSE [p EXCEPT !.detectedTables = Append(@, id), !.view = "list"]

\* handleScanComplete
HandleScanComplete(p) ==
    [p EXCEPT !.scanInProgress = FALSE,
              !.view = IF Len(p.detectedTables) = 0 THEN "empty" ELSE @]

RECURSIVE Deliver(_, _)
\* the popup's message listener over the messages the content script sent
Deliver(p, msgs) ==
    IF msgs = <<>> \/ ~p.open THEN p
    ELSE Deliver(IF Head(msgs).action = "tableFound"
                 THEN HandleTableFound(p, Head(msgs).id)
                 ELSE HandleScanComplete(p),
                 Tail(msgs))

\* the popup after the content script went from st to next
Delivered(st, next) ==
    Deliver(popup, SubSeq(next.sent, Len(st.sent) + 1, Len(next.sent)))

RECURSIVE ShowCached(_, _)
\* cachedTables.forEach(table => this.handleTableFound(table))
ShowCached(p, ids) ==
    IF ids = <<>> THEN p ELSE ShowCached(HandleTableFound(p, Head(ids)), Tail(ids))

\* scanCurrentPage for the popup p; the getTables message reaches the
\* content script unless the page has none
ScanCurrentPage(p) ==
    IF p.scanInProgress
    THEN /\ popup' = p
         /\ UNCHANGED scan
    ELSE IF doc.restricted
    THEN \* chrome.tabs.sendMessage rejects: showError, scanInProgress = false
         /\ popup' = [p EXCEPT !.view = "error", !.scanInProgress = FALSE,
                               !.asked = TRUE]
         /\ UNCHANGED scan
    ELSE \* case 'getTables': this.scanWithRetry()
         /\ popup' = [p EXCEPT !.view = "scanning", !.scanInProgress = TRUE,
                               !.asked = TRUE]
         /\ scan' = [StartAttempt(Idle, 1) EXCEPT !.again = scan.pc # "idle"]

\* new CognitoTablePopup(): loadInitialState
OpenPopup ==
    LET p == [popup EXCEPT !.open = TRUE, !.view = "loading"]
    IN /\ ~popup.open
       /\ IF doc.restricted
          THEN /\ popup' = [p EXCEPT !.view = "error"]
               /\ UNCHANGED scan
          ELSE IF cache.valid
          THEN /\ popup' = IF Len(cache.ids) > 0 THEN ShowCached(p, cache.ids)
                           ELSE HandleScanComplete(p)
               /\ UNCHANGED scan
          ELSE ScanCurrentPage(p)
       /\ UNCHANGED <<probe, elapsed, burst, dropped, doc, scrollTop, bodyStyle, isAnalyzing, debounceTimer,
                      badgeScan, badge, cache>>

\* click on "Rescan Page": rescanPage
RescanPage ==
    /\ popup.open
    /\ ScanCurrentPage([popup EXCEPT !.detectedTables = <<>>])
    /\ UNCHANGED <<probe, elapsed, burst, dropped, doc, scrollTop, bodyStyle, isAnalyzing, debounceTimer,
                   badgeScan, badge, cache>>

\* whether a scanWithRetry call is running
InFlight == scan.pc \notin {"idle", "done", "failed"}

\* the popup window is closed; it is closed only between two scans
ClosePopup ==
    /\ popup.open
    /\ ~InFlight
    /\ popup' = Closed
    /\ UNCHANGED <<probe, elapsed, burst, dropped, doc, scrollTop, bodyStyle, isAnalyzing, debounceTimer,
                   badgeScan, badge, cache, scan>>

\* the cached tables are older than five minutes
CacheExpires ==
    /\ cache.valid
    /\ cache' = NoCache
    /\ UNCHANGED <<probe, elapsed, burst, dropped, doc, scrollTop, bodyStyle, isAnalyzing, debounceTimer,
                   badgeScan, badge, scan, popup>>

----------------------------------------------------------------------------
(* scanWithRetry                                                           *)

\* the body of the two for-loops of scanAndProcessTables, up to the call of
\* extractVirtualizedTableData
ProcessCandidate ==
    LET st == scan
        c == doc.cands[st.idx]
        tableData == BaselineOf(c)
        next == IF TooSmall(c, tableData) THEN [st EXCEPT !.idx = @ + 1]
                ELSE IF ~c.virt THEN EmitTable(st, c, tableData)
                ELSE [st EXCEPT !.pc = "targets", !.tableData = tableData,
                                !.tIdx = 1, !.bestResult = NoData,
                                !.before = scrollTop, !.after = scrollTop,
                                !.touched = {}, !.threw = {},
                                !.baseline = tableData, !.enhanced = NoData,
                                !.recovered = FALSE]
    IN /\ st.pc = "process"
       /\ st.idx <= Len(doc.cands)
       /\ scan' = next
       /\ popup' = Delivered(st, next)
       /\ UNCHANGED <<probe, elapsed, burst, dropped, doc, scrollTop, bodyStyle, isAnalyzing, debounceTimer,
                      badgeScan, badge, cache>>

\* scrollPosition = (maxScroll / 10) * step
ScrollPosition(t, step) == (MaxScroll(t) * step) \div 10

\* the finally of the loop over the scroll targets
Restored(offsets, t, originalScrollTop) ==
    IF t # "window" THEN [offsets EXCEPT ![t] = originalScrollTop] ELSE offsets

\* the rest of the try block once performScrollExtraction has returned
EndOfPass(st, result) ==
    [st EXCEPT !.pc = "targets", !.tIdx = @ + 1,
               !.bestResult = Better(NormalizeData(result), st.bestResult),
               !.step = 0, !.allRows = <<>>, !.seenRows = {}, !.headers = <<>>,
               !.originalScrollTop = 0]

\* the head of `for (const scrollableElement of scrollTargets)`: the next
\* scroll pass up to its first sleep, or what follows the loop up to the
\* sleep of simulateZoomExtraction
NextTarget ==
    LET st == scan
        c == doc.cands[st.idx]
        scrollTargets == FindAllScrollableElements(c)
        t == scrollTargets[st.tIdx]
        finished == FinishRecovery(st, c, st.bestResult, scrollTop)
    IN /\ st.pc = "targets"
       /\ IF st.tIdx <= Len(scrollTargets)
          THEN IF MaxScroll(t) <= 0
               THEN \* `if (maxScroll <= 0) break` at step 0
                    /\ scan' = EndOfPass(st, MkData(<<>>, <<>>))
                    /\ UNCHANGED <<scrollTop, bodyStyle, popup>>
               ELSE /\ scan' = [st EXCEPT !.pc = "scrolled", !.step = 0,
                                          !.originalScrollTop =
                                              IF t = "window" THEN 0 ELSE scrollTop[t],
                                          !.touched = @ \cup {t}]
                    /\ scrollTop' = [scrollTop EXCEPT ![t] = ScrollPosition(t, 0)]
                    /\ UNCHANGED <<bodyStyle, popup>>
          ELSE IF ~st.bestResult.ok \/ Len(st.bestResult.rows) < MinRowsForAlternatives
               THEN /\ scan' = [st EXCEPT !.pc = "zoomed", !.originalStyles = bodyStyle]
                    /\ bodyStyle' = ZoomedStyle
                    /\ UNCHANGED <<scrollTop, popup>>
               ELSE /\ scan' = finished
                    /\ popup' = Delivered(st, finished)
                    /\ UNCHANGED <<scrollTop, bodyStyle>>
       /\ UNCHANGED <<probe, elapsed, burst, dropped, doc, isAnalyzing, debounceTimer, badgeScan, badge, cache>>

RECURSIVE Accumulate(_, _, _, _)
\* stepData.rows.forEach: rows not seen yet are stamped with the scroll
\* position of the step and their discovery order
Accumulate(rows, allRows, seenRows, scrollPosition) ==
    IF rows = <<>> THEN [allRows |-> allRows, seenRows |-> seenRows]
    ELSE LET rowKey == RowKey(Head(rows))
         IN IF rowKey \in seenRows
            THEN Accumulate(Tail(rows), allRows, seenRows, scrollPosition)
            ELSE Accumulate(Tail(rows),
                            Append(allRows, [data |-> Head(rows),
                                             scroll |-> scrollPosition,
                                             order |-> Len(allRows)]),
                            seenRows \cup {rowKey}, scrollPosition)

\* what performScrollExtraction returns after its loop
ScrollResult(headers, allRows) ==
    LET sorted == SortByScroll(allRows)
    IN MkData(headers, [i \in 1..Len(sorted) |-> sorted[i].data])

\* performScrollExtraction from the end of `await Utils.sleep(300)` to the
\* next sleep, or to the end of the pass; the extraction of the step may throw
ScrollStep ==
    LET st == scan
        c == doc.cands[st.idx]
        t == FindAllScrollableElements(c)[st.tIdx]
        stepData == AnalyzeImplicitTable(ChildrenOf(c, scrollTop, bodyStyle))
        headers == IF stepData.ok /\ Len(stepData.headers) > Len(st.headers)
                   THEN stepData.headers ELSE st.headers
        acc == IF stepData.ok
               THEN Accumulate(stepData.rows, st.allRows, st.seenRows,
                               ScrollPosition(t, st.step))
               ELSE [allRows |-> st.allRows, seenRows |-> st.seenRows]
    IN /\ st.pc = "scrolled"
       /\ \E thrown \in BOOLEAN :
            IF thrown
            THEN \* catch (error) { console.warn } finally { restore }
                 /\ scan' = [EndOfPass(st, NoData) EXCEPT !.bestResult = st.bestResult,
                                                          !.threw = @ \cup {"scroll"}]
                 /\ scrollTop' = Restored(scrollTop, t, st.originalScrollTop)
            ELSE IF st.step + 1 <= ScrollSteps
            THEN /\ scan' = [st EXCEPT !.step = @ + 1, !.headers = headers,
                                       !.allRows = acc.allRows,
                                       !.seenRows = acc.seenRows]
                 /\ scrollTop' = [scrollTop EXCEPT ![t] = ScrollPosition(t, st.step + 1)]
            ELSE /\ scan' = EndOfPass(st, ScrollResult(headers, acc.allRows))
                 /\ scrollTop' = Restored(scrollTop, t, st.originalScrollTop)
       /\ UNCHANGED <<probe, elapsed, burst, dropped, doc, bodyStyle, isAnalyzing, debounceTimer, badgeScan,
                      badge, cache, popup>>

\* simulateZoomExtraction from the end of `await Utils.sleep(500)` to the
\* sleep of its finally block; the extraction may throw
ZoomExtract ==
    LET st == scan
        c == doc.cands[st.idx]
    IN /\ st.pc = "zoomed"
       /\ \E thrown \in BOOLEAN :
            scan' = [st EXCEPT !.pc = "unzoomed", !.zoomThrew = thrown,
                               !.zoomResult =
                                   IF thrown THEN NoData
                                   ELSE AnalyzeImplicitTable(
                                            ChildrenOf(c, scrollTop, bodyStyle))]
       /\ bodyStyle' = st.originalStyles
       /\ UNCHANGED <<probe, elapsed, burst, dropped, doc, scrollTop, isAnalyzing, debounceTimer, badgeScan,
                      badge, cache, popup>>

\* extractVirtualizedTableData from the return of simulateZoomExtraction on:
\* the deep scan, the fallback, and the rest of the loop body of
\* scanAndProcessTables
AfterZoom ==
    LET st == scan
        c == doc.cands[st.idx]
        withZoom == Better(NormalizeData(st.zoomResult), st.bestResult)
        withDeep == Better(NormalizeData(PerformDeepTableScan(c.deep)), withZoom)
        finished == FinishRecovery(st, c, withDeep, scrollTop)
    IN /\ st.pc = "unzoomed"
       /\ IF st.zoomThrew
          THEN /\ scan' = Reject(st, scrollTop, "zoom")
               /\ UNCHANGED popup
          ELSE \E thrown \in BOOLEAN :
                 IF thrown
                 THEN /\ scan' = Reject(st, scrollTop, "deep")
                      /\ UNCHANGED popup
                 ELSE /\ scan' = finished
                      /\ popup' = Delivered(st, finished)
       /\ UNCHANGED <<probe, elapsed, burst, dropped, doc, scrollTop, bodyStyle, isAnalyzing, debounceTimer,
                      badgeScan, badge, cache>>

RECURSIVE IdsOf(_)
IdsOf(tables) == IF tables = <<>> THEN <<>> ELSE <<Head(tables).id>> \o IdsOf(Tail(tables))

\* mutant of Completes: the loop gives up one attempt early
Completes_OneAttemptShort(n, attempt) == n > 0 \/ ~(attempt + 2 <= MaxRetries)

\* `if (allFoundTables.length > 0) break`, or the loop condition fails
Completes(n, attempt) == n > 0 \/ ~(attempt + 1 <= MaxRetries)

\* the end of scanAndProcessTables and the rest of the loop body of
\* scanWithRetry; after the loop, the cacheTableData and scanComplete messages
FinishAttempt ==
    LET st == scan
        n == Len(st.found)
        complete == [st EXCEPT !.pc = "done", !.yields = Append(@, n),
                               !.sent = Append(@, [action |-> "scanComplete",
                                                   attempt |-> st.attempt,
                                                   iframes |-> doc.iframes])]
    IN /\ st.pc = "process"
       /\ st.idx > Len(doc.cands)
       /\ badge' = n
       /\ IF Completes(n, st.attempt)
          THEN /\ scan' = complete
               /\ cache' = [valid |-> TRUE, ids |-> IdsOf(st.found)]
               /\ popup' = Delivered(st, complete)
          ELSE /\ scan' = [st EXCEPT !.pc = "waiting", !.yields = Append(@, n),
                                     !.sleeps = @ + 1]
               /\ UNCHANGED <<cache, popup>>
       /\ UNCHANGED <<probe, elapsed, burst, dropped, doc, scrollTop, bodyStyle, isAnalyzing, debounceTimer,
                      badgeScan>>

\* the end of `await Utils.sleep(delay)`: the next attempt
Retry ==
    /\ scan.pc = "waiting"
    /\ scan' = StartAttempt(scan, scan.attempt + 1)
    /\ UNCHANGED <<probe, elapsed, burst, dropped, doc, scrollTop, bodyStyle, isAnalyzing, debounceTimer,
                   badgeScan, badge, cache, popup>>

----------------------------------------------------------------------------
(* The badge scans                                                         *)

\* the quiet period of debouncedAnalysis (500 ms) in ticks
QuietTicks == 1

\* the MutationObserver callback: debouncedAnalysis clears the timeout and
\* sets it again
Mutation ==
    /\ ~doc.restricted
    /\ debounceTimer' = TRUE
    /\ elapsed' = 0
    /\ burst' = debounceTimer
    /\ dropped' = FALSE
    /\ UNCHANGED <<probe, doc, scrollTop, bodyStyle, isAnalyzing, badgeScan, badge,
                   cache, scan, popup>>

\* time passes while the debounce timeout is pending
Tick ==
    /\ debounceTimer
    /\ elapsed < QuietTicks
    /\ elapsed' = elapsed + 1
    /\ UNCHANGED <<probe, burst, dropped, doc, scrollTop, bodyStyle, isAnalyzing, debounceTimer,
                   badgeScan, badge, cache, scan, popup>>

\* mutant of TimeoutDue: the timeout fires without delay
TimeoutDue_NoDelay == debounceTimer

\* setTimeout(() => this.performIncrementalScan(), 500): the timeout is due
TimeoutDue == debounceTimer /\ elapsed = QuietTicks

\* mutant of PerformIncrementalScan: a timeout that finds isAnalyzing set is
\* set again
PerformIncrementalScan_Reschedules ==
    /\ TimeoutDue
    /\ debounceTimer' = isAnalyzing
    /\ elapsed' = 0
    /\ dropped' = isAnalyzing
    /\ IF isAnalyzing
       THEN UNCHANGED <<isAnalyzing, badgeScan>>
       ELSE isAnalyzing' = TRUE /\ badgeScan' = "incremental"
    /\ UNCHANGED <<probe, burst, doc, scrollTop, bodyStyle, badge, cache, scan, popup>>

\* the debounce timeout: performIncrementalScan up to its await, or its
\* return when isAnalyzing is set
PerformIncrementalScan ==
    /\ TimeoutDue
    /\ debounceTimer' = FALSE
    /\ elapsed' = 0
    /\ dropped' = isAnalyzing
    /\ IF isAnalyzing
       THEN UNCHANGED <<isAnalyzing, badgeScan>>
       ELSE isAnalyzing' = TRUE /\ badgeScan' = "incremental"
    /\ UNCHANGED <<probe, burst, doc, scrollTop, bodyStyle, badge, cache, scan, popup>>

\* performInitialScan up to its await
PerformInitialScan ==
    /\ ~doc.restricted
    /\ IF isAnalyzing
       THEN UNCHANGED <<isAnalyzing, badgeScan>>
       ELSE isAnalyzing' = TRUE /\ badgeScan' = "initial"
    /\ UNCHANGED <<probe, elapsed, burst, dropped, doc, scrollTop, bodyStyle, debounceTimer, badge, cache, scan,
                   popup>>

\* mutant of BadgeScanDone: no finally block, a scan that throws keeps the guard
BadgeScanDone_GuardKeptOnThrow ==
    /\ badgeScan # "none"
    /\ \E thrown \in BOOLEAN :
         /\ badge' = IF thrown THEN badge ELSE Len(doc.cands)
         /\ isAnalyzing' = thrown
    /\ badgeScan' = "none"
    /\ UNCHANGED <<probe, elapsed, burst, dropped, doc, scrollTop, bodyStyle, debounceTimer, cache, scan, popup>>

\* scanForBadgeUpdate returns or throws: updateBadgeCount, catch, finally
BadgeScanDone ==
    /\ badgeScan # "none"
    /\ \E thrown \in BOOLEAN :
         badge' = IF thrown THEN badge ELSE Len(doc.cands)
    /\ isAnalyzing' = FALSE
    /\ badgeScan' = "none"
    /\ UNCHANGED <<probe, elapsed, burst, dropped, doc, scrollTop, bodyStyle, debounceTimer, cache, scan, popup>>

Next ==
    \/ OpenPopup
    \/ RescanPage
    \/ ClosePopup
    \/ CacheExpires
    \/ ProcessCandidate
    \/ NextTarget
    \/ ScrollStep
    \/ ZoomExtract
    \/ AfterZoom
    \/ FinishAttempt
    \/ Retry
    \/ Mutation
    \/ Tick
    \/ PerformIncrementalScan
    \/ PerformInitialScan
    \/ BadgeScanDone

Spec == Init /\ [][Next]_vars

----------------------------------------------------------------------------
(* TableAnalyzer on its own                                                *)

MaxRows == 4

\* the <tr> elements of the tables analysed: a row of text cells, a row of
\* numbers, a row of <th> cells, a row that spans, a row without cells
RowKinds ==
    { << Cell(FALSE, 1, 1, A), Cell(FALSE, 1, 1, B) >>,
      << Cell(FALSE, 1, 1, <<"1">>), Cell(FALSE, 1, 1, <<"2", ",", "5">>) >>,
      << Cell(TRUE, 1, 1, A), Cell(TRUE, 1, 1, <<"1">>) >>,
      << Cell(FALSE, 2, 1, <<"1">>) >>,
      << >> }

TableRows == UNION {[1..n -> RowKinds] : n \in 0..MaxRows}

InitAnalyzer ==
    /\ doc = DocEmpty
    /\ scrollTop = NoOffsets
    /\ bodyStyle = OriginalStyle
    /\ isAnalyzing = FALSE
    /\ debounceTimer = FALSE
    /\ badgeScan = "none"
    /\ badge = 0
    /\ cache = NoCache
    /\ scan = Idle
    /\ popup = Closed
    /\ probe = NoProbe
    /\ elapsed = 0
    /\ burst = FALSE
    /\ dropped = FALSE

\* const headerRowsEnd = this.detectHeaderRowsEnd(allRows)
DetectHeaderRows ==
    /\ probe = NoProbe
    /\ \E rows \in TableRows :
         probe' = [fn |-> "detectHeaderRowsEnd", rows |-> rows,
                   result |-> DetectHeaderRowsEnd(rows)]
    /\ UNCHANGED <<elapsed, burst, dropped, doc, scrollTop, bodyStyle, isAnalyzing, debounceTimer,
                   badgeScan, badge, cache, scan, popup>>

----------------------------------------------------------------------------
(* TableScanner.findImplicitTables on its own.                             *)
(*                                                                         *)
(* The containers are the visible ones with two children or more, numbered *)
(* in document order; parent[i] is the nearest container above container   *)
(* i, or 0; conf[i] is the confidence of container i in tenths.            *)

ConfidenceThreshold == 6
MaxCandidates == 10

RECURSIVE Contains(_, _, _)
\* a.contains(b): b is a, or a is above b
Contains(parent, a, b) ==
    IF b = 0 THEN FALSE
    ELSE IF a = b THEN TRUE
    ELSE Contains(parent, a, parent[b])

\* mutant of Overlapping: only `candidate.element.contains(processed.element)`
Overlapping_OneWay(parent, candidate, processed) ==
    Contains(parent, candidate, processed)

\* candidate.element.contains(processed.element) ||
\* processed.element.contains(candidate.element)
Overlapping(parent, candidate, processed) ==
    Contains(parent, candidate, processed) \/ Contains(parent, processed, candidate)

\* mutant of ComesFirst: ascending confidence
ComesFirst_Ascending(a, b) == a.confidence - b.confidence < 0

\* the comparator (a, b) => b.confidence - a.confidence puts a before b
ComesFirst(a, b) == b.confidence - a.confidence < 0

RECURSIVE InsertByConfidence(_, _)
InsertByConfidence(sorted, x) ==
    IF sorted = <<>> THEN <<x>>
    ELSE IF ComesFirst(x, Head(sorted)) THEN <<x>> \o sorted
    ELSE <<Head(sorted)>> \o InsertByConfidence(Tail(sorted), x)

RECURSIVE SortByConfidence(_)
\* candidates.sort((a, b) => b.confidence - a.confidence): a stable sort
SortByConfidence(candidates) ==
    IF candidates = <<>> THEN <<>>
    ELSE InsertByConfidence(
             SortByConfidence(SubSeq(candidates, 1, Len(candidates) - 1)),
             candidates[Len(candidates)])

RECURSIVE GreedyFilter(_, _, _)
\* the for-loop of filterOverlappingTables
GreedyFilter(parent, sorted, filtered) ==
    IF sorted = <<>> THEN filtered
    ELSE LET candidate == Head(sorted)
             isOverlapping ==
                 \E i \in 1..Len(filtered) :
                     Overlapping(parent, candidate.element, filtered[i].element)
         IN GreedyFilter(parent, Tail(sorted),
                         IF isOverlapping THEN filtered ELSE Append(filtered, candidate))

FilterOverlappingTables(parent, candidates) ==
    IF Len(candidates) <= 1 THEN candidates
    ELSE GreedyFilter(parent, SortByConfidence(candidates), <<>>)

RECURSIVE CollectCandidates(_, _)
\* the loop over the containers: those with confidence > 0.6
CollectCandidates(conf, i) ==
    IF i > Len(conf) THEN <<>>
    ELSE (IF conf[i] > ConfidenceThreshold
          THEN <<[element |-> i, confidence |-> conf[i]]>> ELSE <<>>)
         \o CollectCandidates(conf, i + 1)

FindImplicitTables(parent, conf) ==
    LET filtered == FilterOverlappingTables(parent, CollectCandidates(conf, 1))
    IN SubSeq(filtered, 1, Min2(Len(filtered), MaxCandidates))

MaxContainers == 4
WideCount == 11

Confidences == {5, 7, 9}

\* the container trees with n containers numbered in document order
Forests(n) ==
    {p \in [1..n -> 0..(n - 1)] :
        \A i \in 1..n :
            /\ p[i] < i
            /\ p[i] # 0 => Contains(p, p[i], i - 1)}

\* WideCount containers side by side
WideForest == [i \in 1..WideCount |-> 0]

ContainerTrees ==
    UNION {{[parent |-> p, conf |-> c] :
               p \in Forests(n), c \in [1..n -> Confidences]} : n \in 0..MaxContainers}
    \cup {[parent |-> WideForest, conf |-> c] :
               c \in [1..WideCount -> Confidences \ {5}]}

\* const implicitCandidates = await this.tableScanner.findImplicitTables()
FindImplicit ==
    /\ probe = NoProbe
    /\ \E t \in ContainerTrees :
         probe' = [fn |-> "findImplicitTables", parent |-> t.parent, conf |-> t.conf,
                   result |-> FindImplicitTables(t.parent, t.conf)]
    /\ UNCHANGED <<elapsed, burst, dropped, doc, scrollTop, bodyStyle, isAnalyzing, debounceTimer,
                   badgeScan, badge, cache, scan, popup>>

----------------------------------------------------------------------------
(* VirtualizedTableHandler.detectVirtualizedTable on its own.              *)
(*                                                                         *)
(* A container is described by what the checks read: its tag, whether a    *)
(* descendant matches the react/virtual selector, whether                  *)
(* findScrollableParent finds an element, the numbers of its descendants   *)
(* and children, whether a descendant is translated, whether a descendant  *)
(* matches the lazy/load selector or a grid library class, and the number  *)
(* of row-like descendants.                                                *)

Count(b) == IF b THEN 1 ELSE 0

\* the five strong checks and the weak one
StrongSignals(c) ==
    Count(c.reactOrVirtualClass)
    + Count(c.scrollableParent /\ c.descendants > 20 /\ c.children < 50)
    + Count(c.transformTranslateUsage)
    + Count(c.lazyOrLoadMarkers)
    + Count(c.knownGridLibs)

WeakSignals(c) == Count(c.rowLike >= 5)

\* mutant of DetectVirtualizedTable: any indicator qualifies
DetectVirtualizedTable_AnyIndicator(c) ==
    StrongSignals(c) + WeakSignals(c) >= 1

DetectVirtualizedTable(c) ==
    IF c.tag = "table"
    THEN StrongSignals(c) >= 1
    ELSE StrongSignals(c) + WeakSignals(c) >= 2

ProbedContainers ==
    [tag : {"table", "div"},
     reactOrVirtualClass : BOOLEAN,
     scrollableParent : BOOLEAN, descendants : {20, 21}, children : {49, 50},
     transformTranslateUsage : BOOLEAN,
     lazyOrLoadMarkers : BOOLEAN,
     knownGridLibs : BOOLEAN,
     rowLike : {4, 5}]

\* if (this.virtualizedHandler.detectVirtualizedTable(tableElement))
DetectVirtualized ==
    /\ probe = NoProbe
    /\ \E c \in ProbedContainers :
         probe' = [fn |-> "detectVirtualizedTable", container |-> c,
                   result |-> DetectVirtualizedTable(c)]
    /\ UNCHANGED <<elapsed, burst, dropped, doc, scrollTop, bodyStyle, isAnalyzing, debounceTimer,
                   badgeScan, badge, cache, scan, popup>>

----------------------------------------------------------------------------
(* TableScanner.analyzeContainerForTablePattern on its own.                *)
(*                                                                         *)
(* A JavaScript number is modelled as a fraction num/den with den > 0, or  *)
(* as NaN.  A child is described by its signature, the left and height of  *)
(* its bounding rectangle and the data types of its cells.                 *)

Abs(x) == IF x < 0 THEN -x ELSE x

RECURSIVE GCD(_, _)
GCD(a, b) == IF b = 0 THEN a ELSE GCD(b, a % b)

\* the number n/d, in lowest terms
Frac(n, d) ==
    LET g == GCD(Abs(n), d)
    IN [nan |-> FALSE, num |-> n \div g, den |-> d \div g]

NaN == [nan |-> TRUE, num |-> 0, den |-> 1]

\* a + b, and NaN when one of them is
FracAdd(a, b) ==
    IF a.nan \/ b.nan THEN NaN
    ELSE Frac(a.num * b.den + b.num * a.den, a.den * b.den)

\* a * n / d for integers n and d > 0
FracScale(a, n, d) == IF a.nan THEN NaN ELSE Frac(a.num * n, a.den * d)

RECURSIVE SumOf(_)
SumOf(values) == IF values = <<>> THEN 0 ELSE Head(values) + SumOf(Tail(values))

RECURSIVE MaxOf(_)
\* Math.max(...values) for a non-empty list
MaxOf(values) ==
    IF Len(values) = 1 THEN values[1] ELSE Max2(Head(values), MaxOf(Tail(values)))

\* the greatest number of equal entries of a non-empty list
LargestGroup(keys) ==
    MaxOf([i \in 1..Len(keys) |->
              Cardinality({j \in 1..Len(keys) : keys[j] = keys[i]})])

CalculateStructuralSimilarity(elements) ==
    IF Len(elements) < 2 THEN Frac(0, 1)
    ELSE Frac(LargestGroup([i \in 1..Len(elements) |-> elements[i].signature]),
              Len(elements))

\* calculateConsistency: with n values of sum t, avg = t/n and
\* maxDeviation / Math.abs(avg) = max |n*v - t| / |t|; it is 0/0 = NaN when
\* all values are 0, and Infinity when only their sum is
CalculateConsistency(values) ==
    IF Len(values) < 2 THEN Frac(1, 1)
    ELSE LET n == Len(values)
             t == SumOf(values)
             dev == MaxOf([i \in 1..n |-> Abs(n * values[i] - t)])
         IN IF t = 0
            THEN IF dev = 0 THEN NaN ELSE Frac(0, 1)
            ELSE Frac(Max2(0, Abs(t) - dev), Abs(t))

AssessVisualAlignment(elements) ==
    IF Len(elements) < 2 THEN Frac(0, 1)
    ELSE LET leftAlignment ==
                 CalculateConsistency([i \in 1..Len(elements) |-> elements[i].left])
             heightConsistency ==
                 CalculateConsistency([i \in 1..Len(elements) |-> elements[i].height])
         IN FracScale(FracAdd(leftAlignment, heightConsistency), 1, 2)

RECURSIVE TotalConsistency(_, _, _)
\* the loop over the columns of assessContentHomogeneity, from column col on
TotalConsistency(cellPatterns, col, maxColumns) ==
    IF col > maxColumns THEN Frac(0, 1)
    ELSE LET columnTypes == [i \in 1..Len(cellPatterns) |->
                                IF col <= Len(cellPatterns[i])
                                THEN cellPatterns[i][col] ELSE "empty"]
         IN FracAdd(Frac(LargestGroup(columnTypes), Len(columnTypes)),
                    TotalConsistency(cellPatterns, col + 1, maxColumns))

AssessContentHomogeneity(elements) ==
    IF Len(elements) < 2 THEN Frac(0, 1)
    ELSE LET cellPatterns == [i \in 1..Len(elements) |-> elements[i].types]
             maxColumns == MaxLenOf(cellPatterns)
         IN IF maxColumns = 0 THEN Frac(0, 1)
            ELSE FracScale(TotalConsistency(cellPatterns, 1, maxColumns), 1, maxColumns)

\* score 0.5 for a keyword in class or id, + 0.2 for a heading; Math.min(1, score)
FindSemanticTableClues(container) ==
    LET score == (IF container.keyword THEN 5 ELSE 0) + (IF container.heading THEN 2 ELSE 0)
    IN Frac(Min2(10, score), 10)

Signals(container, children) ==
    [structuralSimilarity |-> CalculateStructuralSimilarity(children),
     visualAlignment |-> AssessVisualAlignment(children),
     contentHomogeneity |-> AssessContentHomogeneity(children),
     semanticClues |-> FindSemanticTableClues(container)]

\* (s * 0.3) + (v * 0.3) + (c * 0.2) + (m * 0.2)
Confidence(signals) ==
    FracAdd(FracAdd(FracScale(signals.structuralSimilarity, 3, 10),
                    FracScale(signals.visualAlignment, 3, 10)),
            FracAdd(FracScale(signals.contentHomogeneity, 2, 10),
                    FracScale(signals.semanticClues, 2, 10)))

MaxChildren == 2

ProbedChildren ==
    [signature : {"DIV:", "DIV:SPAN"}, left : {-10, 0, 10}, height : {0, 20},
     types : {<<>>, <<"text", "number">>}]

ProbedParents == [keyword : BOOLEAN, heading : BOOLEAN]

\* const analysis = await this.analyzeContainerForTablePattern(container, children)
AnalyzeContainer ==
    /\ probe = NoProbe
    /\ \E n \in 2..MaxChildren :
         \E children \in [1..n -> ProbedChildren], container \in ProbedParents :
            probe' = [fn |-> "analyzeContainerForTablePattern",
                      children |-> children,
                      signals |-> Signals(container, children),
                      confidence |-> Confidence(Signals(container, children))]
    /\ UNCHANGED <<elapsed, burst, dropped, doc, scrollTop, bodyStyle, isAnalyzing, debounceTimer,
                   badgeScan, badge, cache, scan, popup>>

----------------------------------------------------------------------------
(* TableAnalyzer.inferColumnTypes on its own.                              *)
(*                                                                         *)
(* A regular expression is a tree of the constructors below; Ends(re, s,   *)
(* P) is the set of positions of s at which a match of re that starts at a *)
(* position of P can end.                                                  *)

Ch(set) == [k |-> "chr", set |-> set]
NotCh(set) == [k |-> "not", set |-> set]
Cat(parts) == [k |-> "seq", parts |-> parts]
Alt(parts) == [k |-> "alt", parts |-> parts]
Opt(r) == [k |-> "opt", r |-> r]
Star(r) == [k |-> "star", r |-> r]
Plus(r) == [k |-> "plus", r |-> r]
Word(w) == Cat([i \in 1..Len(w) |-> Ch({w[i]})])

RECURSIVE Ends(_, _, _)
RECURSIVE StarEnds(_, _, _)
Ends(re, s, P) ==
    CASE re.k = "chr" -> {q + 1 : q \in {x \in P : x < Len(s) /\ s[x + 1] \in re.set}}
      [] re.k = "not" -> {q + 1 : q \in {x \in P : x < Len(s) /\ s[x + 1] \notin re.set}}
      [] re.k = "seq" -> IF re.parts = <<>> THEN P
                         ELSE Ends(Cat(Tail(re.parts)), s, Ends(Head(re.parts), s, P))
      [] re.k = "alt" -> UNION {Ends(re.parts[i], s, P) : i \in 1..Len(re.parts)}
      [] re.k = "opt" -> P \cup Ends(re.r, s, P)
      [] re.k = "star" -> StarEnds(re.r, s, P)
      [] re.k = "plus" -> StarEnds(re.r, s, Ends(re.r, s, P))

StarEnds(r, s, P) ==
    LET Q == P \cup Ends(r, s, P)
    IN IF Q = P THEN P ELSE StarEnds(r, s, Q)

UpperCase == <<"A", "B", "C", "D", "E", "F", "G", "H", "I", "J", "K", "L", "M",
               "N", "O", "P", "Q", "R", "S", "T", "U", "V", "W", "X", "Y", "Z">>
LowerCase == <<"a", "b", "c", "d", "e", "f", "g", "h", "i", "j", "k", "l", "m",
               "n", "o", "p", "q", "r", "s", "t", "u", "v", "w", "x", "y", "z">>

\* the i flag: the letters of the text are compared in lower case
IgnoreCase(s) ==
    [i \in 1..Len(s) |->
        IF \E j \in 1..26 : UpperCase[j] = s[i]
        THEN LowerCase[CHOOSE j \in 1..26 : UpperCase[j] = s[i]]
        ELSE s[i]]

D == Ch({"0", "1", "2", "3", "4", "5", "6", "7", "8", "9"})
Dot == Ch({"."})
Sep == Ch({"/", "-"})
Colon == Ch({":"})
NoSpaceNoAt == NotCh({" ", "@"})

\* typeTests, in the order of the source; weight in tenths; anchored is
\* FALSE for the one test without $; i is the flag
typeTests ==
    << [type |-> "number", weight |-> 10, anchored |-> TRUE, i |-> FALSE,
        test |-> Cat(<<Opt(Ch({"-"})), Plus(D), Opt(Cat(<<Dot, Plus(D)>>))>>)],
       [type |-> "currency", weight |-> 9, anchored |-> TRUE, i |-> FALSE,
        test |-> Cat(<<Opt(Ch({"$", "€", "£", "¥"})), Opt(Ch({" "})), Plus(D),
                       Star(Cat(<<Opt(Ch({",", "."})), Plus(D)>>)),
                       Opt(Cat(<<Dot, D, D>>))>>)],
       [type |-> "percentage", weight |-> 9, anchored |-> TRUE, i |-> FALSE,
        test |-> Cat(<<Plus(D), Opt(Cat(<<Dot, Plus(D)>>)), Ch({"%"})>>)],
       [type |-> "date", weight |-> 9, anchored |-> TRUE, i |-> FALSE,
        test |-> Alt(<<Cat(<<D, Opt(D), Sep, D, Opt(D), Sep, D, D, Opt(D), Opt(D)>>),
                       Cat(<<D, D, D, D, Sep, D, Opt(D), Sep, D, Opt(D)>>)>>)],
       [type |-> "time", weight |-> 8, anchored |-> TRUE, i |-> TRUE,
        test |-> Cat(<<D, Opt(D), Colon, D, D, Opt(Cat(<<Colon, D, D>>)),
                       Opt(Cat(<<Opt(Ch({" "})),
                                 Alt(<<Word(<<"a", "m">>), Word(<<"p", "m">>)>>)>>))>>)],
       [type |-> "email", weight |-> 8, anchored |-> TRUE, i |-> FALSE,
        test |-> Cat(<<Plus(NoSpaceNoAt), Ch({"@"}), Plus(NoSpaceNoAt), Dot,
                       Plus(NoSpaceNoAt)>>)],
       [type |-> "url", weight |-> 8, anchored |-> FALSE, i |-> FALSE,
        test |-> Cat(<<Word(<<"h", "t", "t", "p">>), Opt(Ch({"s"})), Colon,
                       Ch({"/"}), Ch({"/"}), Plus(NotCh({"\n"}))>>)],
       [type |-> "phone", weight |-> 7, anchored |-> TRUE, i |-> FALSE,
        test |-> Cat(<<Opt(Ch({"+"})),
                       Plus(Ch({"0", "1", "2", "3", "4", "5", "6", "7", "8", "9",
                                " ", "-", "(", ")"}))>>)],
       [type |-> "boolean", weight |-> 6, anchored |-> TRUE, i |-> TRUE,
        test |-> Alt(<<Word(<<"t", "r", "u", "e">>), Word(<<"f", "a", "l", "s", "e">>),
                       Word(<<"y", "e", "s">>), Word(<<"n", "o">>), Word(<<"y">>),
                       Word(<<"n">>), Word(<<"1">>), Word(<<"0">>)>>)] >>

\* test.test(val)
Test(t, val) ==
    LET ends == Ends(t.test, IF t.i THEN IgnoreCase(val) ELSE val, {0})
    IN IF t.anchored THEN Len(val) \in ends ELSE ends # {}

\* a < b for two numbers
FracLess(a, b) == a.num * b.den < b.num * a.den

\* (matches / values.length) * weight
\* mutant of Score: the share of matching values, without the weight of the type
Score_Unweighted(t, values) ==
    Frac(Cardinality({j \in 1..Len(values) : Test(t, Trim(values[j]))}), Len(values))

Score(t, values) ==
    Frac(Cardinality({j \in 1..Len(values) : Test(t, Trim(values[j]))}) * t.weight,
         Len(values) * 10)

RECURSIVE BestType_NoThreshold(_, _, _)
BestType_NoThreshold(values, i, bestType) ==
    IF i > Len(typeTests) THEN bestType
    ELSE LET confidence == Score(typeTests[i], values)
         IN BestType_NoThreshold(values, i + 1,
                IF FracLess(bestType.confidence, confidence)
                THEN [type |-> typeTests[i].type, confidence |-> confidence]
                ELSE bestType)

RECURSIVE BestType(_, _, _)
\* typeTests.forEach(...), from the i-th test on.  The products are exact
\* here; with fewer than 8 values the only product equal to 0.7 is 1 * 0.7,
\* which is exact in floating point too.
BestType(values, i, bestType) ==
    IF i > Len(typeTests) THEN bestType
    ELSE LET confidence == Score(typeTests[i], values)
         IN BestType(values, i + 1,
                IF FracLess(bestType.confidence, confidence) /\ FracLess(Frac(7, 10), confidence)
                THEN [type |-> typeTests[i].type, confidence |-> confidence]
                ELSE bestType)

InferSingleColumnType(values) ==
    IF Len(values) = 0 THEN [type |-> "empty", confidence |-> Frac(0, 1)]
    ELSE BestType(values, 1, [type |-> "text", confidence |-> Frac(0, 1)])

\* rows.map(row => row[col] || '').filter(val => val.trim().length > 0)
ColumnValues(rows, col) ==
    SelectSeq([r \in 1..Len(rows) |-> IF col <= Len(rows[r]) THEN rows[r][col] ELSE <<>>],
              LAMBDA val : Len(Trim(val)) > 0)

InferColumnTypes(rows) ==
    IF Len(rows) = 0 THEN <<>>
    ELSE [col \in 1..MaxLenOf(rows) |-> InferSingleColumnType(ColumnValues(rows, col))]

MaxValues == 3

ProbedValues ==
    { <<>>, <<" ">>, <<" ", "1", "2">>, <<"$", "5">>, <<"5", "0", "%">>,
      <<"a", "@", "b", ".", "c">>, <<"+", "1", " ", "2">>, <<"Y", "e", "s">>, <<"x">> }

\* data.columnTypes = this.inferColumnTypes(data.rows)
InferTypes ==
    /\ probe = NoProbe
    /\ \E n \in 0..MaxValues :
         \E rows \in [1..n -> {<<>>} \cup {<<v>> : v \in ProbedValues}] :
            probe' = [fn |-> "inferColumnTypes", rows |-> rows,
                      types |-> InferColumnTypes(rows)]
    /\ UNCHANGED <<elapsed, burst, dropped, doc, scrollTop, bodyStyle, isAnalyzing, debounceTimer,
                   badgeScan, badge, cache, scan, popup>>

----------------------------------------------------------------------------
(* TableAnalyzer.processMultiLevelHeaders on its own.                      *)
(*                                                                         *)
(* The grid is a sequence of rows of slots; column indices count from 0 as *)
(* in the source, so slot colIndex of a row is row[colIndex + 1].          *)

Null == [null |-> TRUE]

RECURSIVE ColCount(_)
\* colCount += parseInt(cell.getAttribute('colspan') || '1'), over the cells
ColCount(cells) ==
    IF cells = <<>> THEN 0 ELSE Head(cells).colspan + ColCount(Tail(cells))

RECURSIVE MaxCols_CountsCells(_)
MaxCols_CountsCells(headerRows) ==
    IF headerRows = <<>> THEN 0
    ELSE Max2(Len(Head(headerRows)), MaxCols_CountsCells(Tail(headerRows)))

RECURSIVE MaxCols(_)
\* maxCols = Math.max(maxCols, colCount), over the rows
MaxCols(headerRows) ==
    IF headerRows = <<>> THEN 0
    ELSE Max2(ColCount(Head(headerRows)), MaxCols(Tail(headerRows)))

RECURSIVE SkipFilled(_, _, _)
\* while (colIndex < maxCols && grid[rowIndex][colIndex] !== null) colIndex++
SkipFilled(gridRow, colIndex, maxCols) ==
    IF colIndex < maxCols /\ gridRow[colIndex + 1] # Null
    THEN SkipFilled(gridRow, colIndex + 1, maxCols)
    ELSE colIndex

\* the two nested loops that write one cell into the slots it spans
FillSpan(grid, rowIndex, colIndex, cell, maxCols) ==
    [r \in 1..Len(grid) |->
        [c \in 1..maxCols |->
            IF /\ r - 1 >= rowIndex /\ r - 1 < rowIndex + cell.rowspan
               /\ c - 1 >= colIndex /\ c - 1 < colIndex + cell.colspan
            THEN [null |-> FALSE, text |-> Trim(cell.text),
                  isSpanOrigin |-> r - 1 = rowIndex /\ c - 1 = colIndex]
            ELSE grid[r][c]]]

RECURSIVE PlaceCells(_, _, _, _, _)
\* the forEach over the cells of one row, from colIndex on
PlaceCells(grid, rowIndex, cells, colIndex, maxCols) ==
    IF cells = <<>> THEN grid
    ELSE LET at == SkipFilled(grid[rowIndex + 1], colIndex, maxCols)
         IN IF at >= maxCols
            THEN PlaceCells(grid, rowIndex, Tail(cells), at, maxCols)
            ELSE PlaceCells(FillSpan(grid, rowIndex, at, Head(cells), maxCols),
                            rowIndex, Tail(cells), at + Head(cells).colspan, maxCols)

RECURSIVE PlaceRows(_, _, _, _)
\* the forEach over the rows, from rowIndex on
PlaceRows(grid, headerRows, rowIndex, maxCols) ==
    IF rowIndex >= Len(headerRows) THEN grid
    ELSE PlaceRows(PlaceCells(grid, rowIndex, headerRows[rowIndex + 1], 0, maxCols),
                   headerRows, rowIndex + 1, maxCols)

BuildHeaderGrid(headerRows) ==
    LET maxCols == MaxCols(headerRows)
    IN PlaceRows([r \in 1..Len(headerRows) |-> [c \in 1..maxCols |-> Null]],
                 headerRows, 0, maxCols)

\* headerParts.includes(text)
Includes(parts, text) == \E i \in 1..Len(parts) : parts[i] = text

RECURSIVE HeaderParts_WithRepeats(_, _, _, _)
HeaderParts_WithRepeats(grid, col, row, headerParts) ==
    IF row >= Len(grid) THEN headerParts
    ELSE LET cell == grid[row + 1][col + 1]
         IN HeaderParts_WithRepeats(grid, col, row + 1,
                IF cell # Null /\ cell.text # <<>>
                THEN Append(headerParts, cell.text)
                ELSE headerParts)

RECURSIVE HeaderParts(_, _, _, _)
\* the loop over the rows of one column, from row on
HeaderParts(grid, col, row, headerParts) ==
    IF row >= Len(grid) THEN headerParts
    ELSE LET cell == grid[row + 1][col + 1]
         IN HeaderParts(grid, col, row + 1,
                IF cell # Null /\ cell.text # <<>> /\ ~Includes(headerParts, cell.text)
                THEN Append(headerParts, cell.text)
                ELSE headerParts)

GenerateFinalHeaders(grid) ==
    IF Len(grid) = 0 THEN <<>>
    ELSE [c \in 1..Len(grid[1]) |->
            LET finalHeader == JoinWith(HeaderParts(grid, c - 1, 0, <<>>), <<" ", "-", " ">>)
            IN IF finalHeader = <<>> THEN ColumnName(c) ELSE finalHeader]

ProcessMultiLevelHeaders(headerRows) ==
    IF Len(headerRows) = 0 THEN <<>>
    ELSE GenerateFinalHeaders(BuildHeaderGrid(headerRows))

MaxHeaderRows == 3

Revenue == <<"R", "e", "v", "e", "n", "u", "e">>
Q1 == <<"Q", "1">>
Q2 == <<"Q", "2">>

HeaderRowKinds ==
    { << Cell(TRUE, 2, 1, Revenue) >>,
      << Cell(TRUE, 1, 1, Q1), Cell(TRUE, 1, 1, Q2) >>,
      << Cell(TRUE, 1, 2, A), Cell(TRUE, 2, 1, Revenue) >>,
      << Cell(TRUE, 1, 1, Q1), Cell(TRUE, 1, 1, <<" ">>) >>,
      << Cell(TRUE, 1, 1, <<>>), Cell(TRUE, 1, 1, <<>>) >>,
      << Cell(TRUE, 1, 1, A), Cell(TRUE, 1, 1, Q1), Cell(TRUE, 1, 1, Q2) >>,
      << Cell(TRUE, 2, 2, Revenue), Cell(TRUE, 1, 3, B) >>,
      << >> }

\* data.headers = this.processMultiLevelHeaders(headerRows)
ProcessHeaders ==
    /\ probe = NoProbe
    /\ \E n \in 1..MaxHeaderRows :
         \E headerRows \in [1..n -> HeaderRowKinds] :
            probe' = [fn |-> "processMultiLevelHeaders", headerRows |-> headerRows,
                      headers |-> ProcessMultiLevelHeaders(headerRows)]
    /\ UNCHANGED <<elapsed, burst, dropped, doc, scrollTop, bodyStyle, isAnalyzing, debounceTimer,
                   badgeScan, badge, cache, scan, popup>>

----------------------------------------------------------------------------
(* VirtualizedTableHandler._normalizeData on its own.  The rows it is      *)
(* given have one cell or more: analyzeImplicitTable and                   *)
(* performDeepTableScan keep no row without cells.                         *)

MaxNormalizedRows == 3

ProbedHeaders == { <<>>, <<A>>, <<A, B>>, <<A \o <<" ">>, B>> }

ProbedRows == { <<A, B>>, <<B, A>>, <<A>>, <<AB>>, << <<" ">> \o A, B>> }

\* const cleaned = this._normalizeData(result)
Normalize ==
    /\ probe = NoProbe
    /\ \E n \in 0..MaxNormalizedRows :
         \E headers \in ProbedHeaders, rows \in [1..n -> ProbedRows] :
            probe' = [fn |-> "_normalizeData", data |-> MkData(headers, rows),
                      cleaned |-> NormalizeData(MkData(headers, rows))]
    /\ UNCHANGED <<elapsed, burst, dropped, doc, scrollTop, bodyStyle, isAnalyzing, debounceTimer,
                   badgeScan, badge, cache, scan, popup>>

----------------------------------------------------------------------------
(* The sort that ends performScrollExtraction, on its own.  getMaxScroll   *)
(* is read again at every step, so the scroll position of a later step can *)
(* be smaller than that of an earlier one.                                 *)

MaxSampledRows == 3

ProbedScrolls == {0, 50, 100}

\* allRowsWithPositions: the i-th row discovered has order i - 1
SampledRows(scrolls) ==
    [i \in 1..Len(scrolls) |-> [data |-> <<Dec(i)>>, scroll |-> scrolls[i], order |-> i - 1]]

\* allRowsWithPositions.sort(...); const rows = allRowsWithPositions.map(r => r.data)
SortSampledRows ==
    /\ probe = NoProbe
    /\ \E n \in 0..MaxSampledRows :
         \E scrolls \in [1..n -> ProbedScrolls] :
            probe' = [fn |-> "performScrollExtraction",
                      allRowsWithPositions |-> SampledRows(scrolls),
                      rows |-> ScrollResult(<<>>, SampledRows(scrolls)).rows]
    /\ UNCHANGED <<elapsed, burst, dropped, doc, scrollTop, bodyStyle, isAnalyzing, debounceTimer,
                   badgeScan, badge, cache, scan, popup>>

----------------------------------------------------------------------------
(* VirtualizedTableHandler.performDeepTableScan on its own.  An element    *)
(* under the search root is given by its path: its index among its         *)
(* siblings, then the index of its parent, and so on up to the child of    *)
(* the root.  Its cells spell the path, so that no two elements have the   *)
(* same row.                                                               *)

MaxMatched == 3

ProbedPaths == { <<0>>, <<1>>, <<0, 0>>, <<1, 0>>, <<0, 1>>, <<1, 1>> }

RowElement(path) ==
    RowCandidate([i \in 1..Len(path) |-> Dec(path[i])], FALSE, TRUE, path)

\* const deepScanResult = await this.performDeepTableScan(container)
DeepScan ==
    /\ probe = NoProbe
    /\ \E n \in 1..MaxMatched :
         \E paths \in [1..n -> ProbedPaths] :
            /\ \A i, j \in 1..n : paths[i] = paths[j] => i = j
            /\ probe' = [fn |-> "performDeepTableScan", rowCandidates |-> paths,
                         rows |-> PerformDeepTableScan(
                                      [i \in 1..n |-> RowElement(paths[i])]).rows]
    /\ UNCHANGED <<elapsed, burst, dropped, doc, scrollTop, bodyStyle, isAnalyzing, debounceTimer,
                   badgeScan, badge, cache, scan, popup>>

----------------------------------------------------------------------------
(* VirtualizedTableHandler.extractVirtualizedTableData on its own: what it *)
(* returns, given what each strategy returns.  A scroll pass returns a     *)
(* result or throws; simulateZoomExtraction and the static extraction      *)
(* return what analyzeImplicitTable returns, null included;                *)
(* performDeepTableScan returns null or a result with rows.  The           *)
(* exceptions of the last two leave the function and are not part of this. *)

Threw == [threw |-> TRUE]

RECURSIVE BestOfScrollPasses(_, _)
\* the loop over the scroll targets: a pass that throws is caught
BestOfScrollPasses(results, bestResult) ==
    IF results = <<>> THEN bestResult
    ELSE BestOfScrollPasses(Tail(results),
             IF Head(results) = Threw THEN bestResult
             ELSE Better(NormalizeData(Head(results)), bestResult))

\* if (!bestResult || bestResult.rows.length < 15)
RunsAlternatives(bestResult) ==
    ~bestResult.ok \/ Len(bestResult.rows) < MinRowsForAlternatives

ExtractVirtualizedTableData(scrollResults, zoomResult, deepScanResult, static) ==
    LET afterLoop == BestOfScrollPasses(scrollResults, NoData)
        withZoom == Better(NormalizeData(zoomResult), afterLoop)
        withDeep == Better(NormalizeData(deepScanResult), withZoom)
        bestResult == IF RunsAlternatives(afterLoop) THEN withDeep ELSE afterLoop
        fallback == IF bestResult.ok THEN bestResult ELSE static
    IN NormalizeData(fallback)

MaxTargets == 2

\* a result with n rows of one cell
Rows(n) == MkData(<<ColumnName(1)>>, [i \in 1..n |-> <<Dec(i)>>])

HeaderOnly == MkData(<<A, B>>, <<>>)
HeaderAgain == MkData(<<A, B>>, << <<A, B>>, <<B, A>>, <<C, C>> >>)

ScrollOutcomes ==
    { Threw, MkData(<<>>, <<>>), HeaderOnly, HeaderAgain, Rows(2),
      Rows(MinRowsForAlternatives - 1), Rows(MinRowsForAlternatives) }
ZoomOutcomes == { NoData, HeaderOnly, HeaderAgain, Rows(3) }
DeepOutcomes == { NoData, Rows(2), Rows(3), Rows(MinRowsForAlternatives + 1) }
StaticOutcomes == { NoData, HeaderOnly, Rows(2) }

\* const enhancedData = await this.virtualizedHandler.extractVirtualizedTableData(...)
Recover ==
    /\ probe = NoProbe
    /\ \E n \in 0..MaxTargets :
         \E scrollResults \in [1..n -> ScrollOutcomes], zoomResult \in ZoomOutcomes,
            deepScanResult \in DeepOutcomes, static \in StaticOutcomes :
            probe' = [fn |-> "extractVirtualizedTableData",
                      scrollResults |-> scrollResults, zoomResult |-> zoomResult,
                      deepScanResult |-> deepScanResult, static |-> static,
                      alternatives |->
                          RunsAlternatives(BestOfScrollPasses(scrollResults, NoData)),
                      result |-> ExtractVirtualizedTableData(scrollResults, zoomResult,
                                                             deepScanResult, static)]
    /\ UNCHANGED <<elapsed, burst, dropped, doc, scrollTop, bodyStyle, isAnalyzing, debounceTimer,
                   badgeScan, badge, cache, scan, popup>>

----------------------------------------------------------------------------
(* simulateZoomExtraction called by recoveries that run at the same time.  *)
(* The listener of the content script starts scanWithRetry for every       *)
(* getTables message, so the calls of several scans interleave at their    *)
(* awaits.  probe.calls[i] is the position of the i-th call and the        *)
(* originalStyles it saved.                                                *)

MaxSimulations == 3

NotCalled == [pc |-> "idle", originalStyles |-> OriginalStyle, threw |-> FALSE]

InitZoom ==
    /\ doc = DocEmpty
    /\ scrollTop = NoOffsets
    /\ bodyStyle = OriginalStyle
    /\ isAnalyzing = FALSE
    /\ debounceTimer = FALSE
    /\ badgeScan = "none"
    /\ badge = 0
    /\ cache = NoCache
    /\ scan = Idle
    /\ popup = Closed
    /\ probe = [fn |-> "simulateZoomExtraction",
                calls |-> [i \in 1..MaxSimulations |-> NotCalled]]
    /\ elapsed = 0
    /\ burst = FALSE
    /\ dropped = FALSE

\* simulateZoomExtraction up to `await Utils.sleep(500)`
ZoomOut ==
    /\ \E i \in 1..MaxSimulations :
         /\ probe.calls[i].pc = "idle"
         /\ probe' = [probe EXCEPT !.calls[i] = [pc |-> "zoomed",
                                                 originalStyles |-> bodyStyle,
                                                 threw |-> FALSE]]
    /\ bodyStyle' = ZoomedStyle
    /\ UNCHANGED <<elapsed, burst, dropped, doc, scrollTop, isAnalyzing, debounceTimer,
                   badgeScan, badge, cache, scan, popup>>

\* the extraction returns or throws, and the finally block up to
\* `await Utils.sleep(200)`
ZoomRestore ==
    /\ \E i \in 1..MaxSimulations, thrown \in BOOLEAN :
         /\ probe.calls[i].pc = "zoomed"
         /\ probe' = [probe EXCEPT !.calls[i].pc = "restored",
                                   !.calls[i].threw = thrown]
         /\ bodyStyle' = probe.calls[i].originalStyles
    /\ UNCHANGED <<elapsed, burst, dropped, doc, scrollTop, isAnalyzing, debounceTimer,
                   badgeScan, badge, cache, scan, popup>>

\* the call returns, or its exception leaves it
ZoomEnd ==
    /\ \E i \in 1..MaxSimulations :
         /\ probe.calls[i].pc = "restored"
         /\ probe' = [probe EXCEPT !.calls[i].pc = "done"]
    /\ UNCHANGED <<elapsed, burst, dropped, doc, scrollTop, bodyStyle, isAnalyzing, debounceTimer,
                   badgeScan, badge, cache, scan, popup>>

NextZoom ==
    \/ ZoomOut
    \/ ZoomRestore
    \/ ZoomEnd

SpecZoom == InitZoom /\ [][NextZoom]_vars

----------------------------------------------------------------------------
(* The badge scans on their own, for what is eventually true of them.  The *)
(* promise of scanForBadgeUpdate settles, by return or by exception, and   *)
(* the rest of the function that awaits it then runs: BadgeScanDone is     *)
(* taken once it is enabled.  The getTables scans neither read nor write   *)
(* isAnalyzing.                                                            *)

NextBadge ==
    \/ Mutation
    \/ Tick
    \/ PerformIncrementalScan
    \/ PerformInitialScan
    \/ BadgeScanDone

SpecBadge == Init /\ [][NextBadge]_vars /\ WF_vars(BadgeScanDone)

----------------------------------------------------------------------------
(* The functions on their own: one call per behaviour                      *)

NextAnalyzer ==
    \/ DetectHeaderRows
    \/ FindImplicit
    \/ DetectVirtualized
    \/ AnalyzeContainer
    \/ InferTypes
    \/ ProcessHeaders
    \/ Normalize
    \/ SortSampledRows
    \/ DeepScan
    \/ Recover

SpecAnalyzer == InitAnalyzer /\ [][NextAnalyzer]_vars

----------------------------------------------------------------------------
(* Properties                                                              *)

IsTableFound(m) == m.action = "tableFound"

IsScanComplete(m) == m.action = "scanComplete"

\* the tableFound messages of the scan, in the order they were sent
TablesSent == SelectSeq(scan.sent, IsTableFound)

Completions == SelectSeq(scan.sent, IsScanComplete)

ScansInFlight ==
    (IF InFlight THEN 1 ELSE 0) + (IF badgeScan # "none" THEN 1 ELSE 0)

\* C1: at most one scan is in flight at any time, whether it is the initial
\* badge scan, an incremental scan or a getTables scan run by scanWithRetry:
\* a scan requested while another one runs starts no work.
C1_AtMostOneScanInFlight == ScansInFlight <= 1

\* C2: once extractVirtualizedTableData has returned or thrown, every scroll
\* target it scrolled, the window viewport included, has the scroll offset it
\* had before the recovery started.
C2_ScrollOffsetsRestored ==
    scan.recovered => \A t \in scan.touched : scan.after[t] = scan.before[t]

\* C3: when a recovery strategy has thrown (a scroll pass, the zoom-out
\* simulation or the deep scan), the scan has not failed: nothing is raised
\* to the caller of the scan.
C3_StrategyFailureContained == scan.threw # {} => scan.pc # "failed"

\* C4: a getTables scan that has ended has sent exactly one scanComplete
\* message, carrying the iframe hints, and no message of the scan follows a
\* scanComplete message.
C4_OneCompletionSignal ==
    /\ Len(Completions) <= 1
    /\ \A i \in 1..Len(scan.sent) :
         IsScanComplete(scan.sent[i]) =>
             i = Len(scan.sent) /\ scan.sent[i].iframes = doc.iframes
    /\ scan.pc \in {"done", "failed"} => Len(Completions) = 1

\* C5: scanWithRetry runs at most MaxRetries attempts; every attempt before
\* the last one yielded zero tables; the scan completes with the first
\* attempt that yields a table, or with attempt MaxRetries; it has waited
\* once between every two attempts and not after the last one.
C5_RetryDiscipline ==
    LET started == scan.attempt
        ended == Len(scan.yields)
    IN /\ started <= MaxRetries
       /\ ended \in {started - 1, started} \cap Nat
       /\ \A i \in 1..ended : scan.yields[i] > 0 => i = ended /\ scan.pc = "done"
       /\ scan.pc = "done" =>
              /\ ended = started
              /\ scan.yields[ended] > 0 \/ started = MaxRetries
       /\ scan.pc = "waiting" => ended = started /\ started < MaxRetries
       /\ scan.sleeps = (IF scan.pc = "waiting" THEN started
                         ELSE IF scan.pc = "idle" THEN 0 ELSE started - 1)

\* C5 witness: a scan that completed after MaxRetries attempts without a
\* table, having waited between them
C5_Exhausted ==
    /\ scan.pc = "done"
    /\ scan.attempt = MaxRetries
    /\ scan.yields = [i \in 1..MaxRetries |-> 0]
    /\ scan.sleeps = MaxRetries - 1

RECURSIVE FirstClaims(_, _)
\* the signatures of a sequence of tables without the repetitions
FirstClaims(tables, seen) ==
    IF tables = <<>> THEN <<>>
    ELSE IF Head(tables).signature \in seen THEN FirstClaims(Tail(tables), seen)
    ELSE <<Head(tables).signature>>
             \o FirstClaims(Tail(tables), seen \cup {Head(tables).signature})

\* two tables the signature cannot tell apart: the same headers, the same
\* first three rows, the same row and column counts
SameShape(d, e) ==
    /\ d.headers = e.headers
    /\ Len(d.rows) = Len(e.rows)
    /\ SubSeq(d.rows, 1, Min2(3, Len(d.rows))) = SubSeq(e.rows, 1, Min2(3, Len(e.rows)))

\* C6: within one attempt no two tableFound messages carry tables with the
\* same signature; tables with the same headers, first three rows and counts
\* have the same signature; the tables sent are the first of each signature
\* in processing order, and the later ones got no message and no id.
C6_FirstSignatureWins ==
    LET sigs == [i \in 1..Len(TablesSent) |->
                    CreateTableContentSignature(TablesSent[i].data)]
    IN /\ \A i, j \in 1..Len(sigs) :
            i # j /\ TablesSent[i].attempt = TablesSent[j].attempt
                => sigs[i] # sigs[j]
       /\ \A i, j \in 1..Len(scan.claimed) :
            SameShape(scan.claimed[i].data, scan.claimed[j].data)
                => scan.claimed[i].signature = scan.claimed[j].signature
       /\ scan.pc # "idle" => sigs = FirstClaims(scan.claimed, {})
       /\ scan.tableId = Len(FirstClaims(scan.claimed, {}))

\* C6 witness: a finished scan in which a table and a list were discarded
\* as duplicates of a table sent before
C6_DuplicatesDiscarded ==
    /\ scan.pc = "done"
    /\ Len(TablesSent) >= 2
    /\ Len(scan.claimed) >= Len(TablesSent) + 2

\* C7: the table a virtualized candidate goes on with after its recovery is
\* the recovery output when that has strictly more unique rows than the
\* baseline extraction, and the baseline extraction otherwise; a tableFound
\* message sent for the candidate carries that table.
C7_RecoveryOnlyIfMoreUnique ==
    [][(scan.pc \in {"targets", "unzoomed"} /\ scan'.pc = "process") =>
          LET d == scan'.claimed[Len(scan'.claimed)].data
              base == scan'.baseline
              enh == scan'.enhanced
          IN /\ d = IF enh.ok /\ UniqueCount(enh.rows) > UniqueCount(base.rows)
                    THEN enh ELSE base
             /\ Len(scan'.sent) > Len(scan.sent)
                    => scan'.sent[Len(scan'.sent)].data = d]_vars

\* C7 witness: a recovery output with more unique rows than the baseline,
\* and no more rows, was sent
C7_RecoverySent ==
    /\ scan.recovered
    /\ scan.enhanced.ok
    /\ UniqueCount(scan.enhanced.rows) > UniqueCount(scan.baseline.rows)
    /\ Len(scan.enhanced.rows) <= Len(scan.baseline.rows)
    /\ Len(scan.sent) > 0
    /\ IsTableFound(scan.sent[Len(scan.sent)])
    /\ scan.sent[Len(scan.sent)].data = scan.enhanced

\* C8: the result extractVirtualizedTableData returns has at least as many
\* unique rows as the baseline extraction of the same container.
C8_RecoveryNeverLosesRows ==
    scan.recovered /\ scan.enhanced.ok
        => UniqueCount(scan.enhanced.rows) >= UniqueCount(scan.baseline.rows)

\* C9: for a table with two or more rows detectHeaderRowsEnd returns less
\* than the number of rows, so that one row at least is left as data.
C9_HeaderLeavesData ==
    probe.fn = "detectHeaderRowsEnd" /\ Len(probe.rows) >= 2
        => probe.result < Len(probe.rows)

\* C10: the ids of the tableFound messages of a scan are 1, 2, 3, ... in the
\* order they were sent, explicit tables before implicit ones; tableId counts
\* the messages, so that a skipped or discarded candidate takes no id; this
\* holds for a first scan and for the scans after it.
C10_IdsCountEmissions ==
    /\ \A i \in 1..Len(TablesSent) : TablesSent[i].id = i
    /\ \A i, j \in 1..Len(TablesSent) :
         i < j => ~(TablesSent[i].type = "implicit" /\ TablesSent[j].type = "explicit")
    /\ scan.pc # "idle" => scan.tableId = Len(TablesSent)

\* C10 witness: a later scan has finished, having sent ids 1 and 2 while it
\* skipped or discarded other candidates
C10_IdsRestart ==
    /\ scan.again
    /\ scan.pc = "done"
    /\ Len(TablesSent) = 2
    /\ TablesSent[1].id = 1 /\ TablesSent[2].id = 2
    /\ Len(doc.cands) > 2

\* C11: a mutation starts no scan; an incremental scan starts only when the
\* debounce timeout has been pending for the whole quiet period since the
\* last mutation, and it uses the timeout up, so that a burst of mutations
\* is followed by one incremental scan at most.
C11_DebouncedRescan ==
    [][/\ (debounceTimer' /\ elapsed' = 0 /\ (~debounceTimer \/ elapsed # 0))
            => UNCHANGED <<isAnalyzing, badgeScan, badge>>
       /\ (badgeScan # "incremental" /\ badgeScan' = "incremental")
            => debounceTimer /\ elapsed = QuietTicks /\ ~debounceTimer']_vars

\* C11 witness: an incremental scan runs after a burst: the timeout that
\* started it had replaced a pending one, and no timeout is pending now
C11_ScanAfterBurst ==
    /\ badgeScan = "incremental"
    /\ burst
    /\ ~debounceTimer

\* C12: for a document with a restricted scheme the popup sends no getTables
\* request, whatever is done in the popup.
C12_NoScanOfRestrictedDocument == doc.restricted => ~popup.asked

\* the result of findImplicitTables holds container c
Returned(c) == \E i \in 1..Len(probe.result) : probe.result[i].element = c

\* C13: no container returned by findImplicitTables is above or below
\* another returned container.
C13_NoNestedCandidates ==
    probe.fn = "findImplicitTables" =>
        \A i, j \in 1..Len(probe.result) :
            i # j => /\ ~Contains(probe.parent, probe.result[i].element,
                                  probe.result[j].element)
                     /\ ~Contains(probe.parent, probe.result[j].element,
                                  probe.result[i].element)

\* C13 witness: a container above the threshold was left out because it is
\* inside a returned container, and one because a returned one is inside it
C13_BothDirectionsFiltered ==
    /\ probe.fn = "findImplicitTables"
    /\ \E c, k \in 1..Len(probe.conf) :
         /\ c # k /\ probe.conf[c] > ConfidenceThreshold
         /\ ~Returned(c) /\ Returned(k) /\ Contains(probe.parent, k, c)
    /\ \E c, k \in 1..Len(probe.conf) :
         /\ c # k /\ probe.conf[c] > ConfidenceThreshold
         /\ ~Returned(c) /\ Returned(k) /\ Contains(probe.parent, c, k)

\* container k ranks before container c: greater confidence, or the same
\* confidence and earlier in the document
RanksBefore(k, c) ==
    \/ probe.conf[k] > probe.conf[c]
    \/ probe.conf[k] = probe.conf[c] /\ k < c

\* C14: findImplicitTables returns at most 10 containers, each above the
\* threshold, in descending order of confidence; a container above the
\* threshold is left out only if a returned container that ranks before it
\* contains it or is contained in it, or if 10 containers that rank before
\* it were returned.
C14_GreedyTopTen ==
    probe.fn = "findImplicitTables" =>
        LET r == probe.result
        IN /\ Len(r) <= MaxCandidates
           /\ \A i \in 1..Len(r) :
                /\ r[i].element \in 1..Len(probe.conf)
                /\ r[i].confidence = probe.conf[r[i].element]
                /\ r[i].confidence > ConfidenceThreshold
           /\ \A i, j \in 1..Len(r) : i < j => RanksBefore(r[i].element, r[j].element)
           /\ \A c \in 1..Len(probe.conf) :
                probe.conf[c] > ConfidenceThreshold /\ ~Returned(c) =>
                    \/ \E k \in 1..Len(probe.conf) :
                          /\ Returned(k) /\ RanksBefore(k, c)
                          /\ \/ Contains(probe.parent, k, c)
                             \/ Contains(probe.parent, c, k)
                    \/ /\ Len(r) = MaxCandidates
                       /\ \A i \in 1..Len(r) : RanksBefore(r[i].element, c)

\* C14 witness: 10 containers were returned and a container above the
\* threshold that overlaps none of them was left out
C14_CapReached ==
    /\ probe.fn = "findImplicitTables"
    /\ Len(probe.result) = MaxCandidates
    /\ \E c \in 1..Len(probe.conf) :
         /\ probe.conf[c] > ConfidenceThreshold /\ ~Returned(c)
         /\ \A k \in 1..Len(probe.conf) :
              Returned(k) => ~Contains(probe.parent, k, c) /\ ~Contains(probe.parent, c, k)

\* the strong signals that hold for the container of the call
StrongHeld ==
    LET c == probe.container
    IN {x \in {"reactOrVirtualClass", "scrollableParentWithSparseDom",
               "transformTranslateUsage", "lazyOrLoadMarkers", "knownGridLibs"} :
           \/ x = "reactOrVirtualClass" /\ c.reactOrVirtualClass
           \/ x = "scrollableParentWithSparseDom"
                  /\ c.scrollableParent /\ c.descendants > 20 /\ c.children < 50
           \/ x = "transformTranslateUsage" /\ c.transformTranslateUsage
           \/ x = "lazyOrLoadMarkers" /\ c.lazyOrLoadMarkers
           \/ x = "knownGridLibs" /\ c.knownGridLibs}

\* C15: detectVirtualizedTable is true for a table element exactly when a
\* strong signal holds, and for another container exactly when the strong
\* signals that hold, plus one if it has 5 row-like descendants or more,
\* are 2 at least.
C15_VirtualizationPolicy ==
    probe.fn = "detectVirtualizedTable" =>
        LET weak == IF probe.container.rowLike >= 5 THEN 1 ELSE 0
        IN probe.result <=>
              IF probe.container.tag = "table"
              THEN StrongHeld # {}
              ELSE Cardinality(StrongHeld) + weak >= 2

\* C15 witness: a table with the weak signal alone was judged not
\* virtualized
C15_WeakAloneRejected ==
    /\ probe.fn = "detectVirtualizedTable"
    /\ probe.container.tag = "table"
    /\ probe.container.rowLike >= 5
    /\ StrongHeld = {}
    /\ ~probe.result

\* x is a number between 0 and 1
InUnitInterval(x) == ~x.nan /\ 0 <= x.num /\ x.num <= x.den

\* C16: for a container with two children or more, whatever their
\* rectangles, each of the four signals is a number in [0,1], and so is the
\* combined confidence.
C16_SignalsInUnitInterval ==
    probe.fn = "analyzeContainerForTablePattern" =>
        /\ InUnitInterval(probe.signals.structuralSimilarity)
        /\ InUnitInterval(probe.signals.visualAlignment)
        /\ InUnitInterval(probe.signals.contentHomogeneity)
        /\ InUnitInterval(probe.signals.semanticClues)
        /\ InUnitInterval(probe.confidence)

\* the non-empty values of the probed column, and the scores of the types
NonEmptyValues == ColumnValues(probe.rows, 1)
ScoreOf(i) == Score(typeTests[i], NonEmptyValues)
HighestScore(i) == \A j \in 1..Len(typeTests) : ~FracLess(ScoreOf(i), ScoreOf(j))

RECURSIVE OriginCol(_, _, _)
RECURSIVE FirstFree(_, _, _)
Covers(rows, r, k, row, col) ==
    /\ r <= row /\ row < r + rows[r][k].rowspan
    /\ OriginCol(rows, r, k) <= col
    /\ col < OriginCol(rows, r, k) + rows[r][k].colspan

FirstFree(rows, r, col) ==
    IF \E r2 \in 1..(r - 1) : \E k \in 1..Len(rows[r2]) : Covers(rows, r2, k, r, col)
    THEN FirstFree(rows, r, col + 1)
    ELSE col

OriginCol(rows, r, k) ==
    FirstFree(rows, r, IF k = 1 THEN 1
                       ELSE OriginCol(rows, r, k - 1) + rows[r][k - 1].colspan)

RECURSIVE CoveringTexts(_, _, _)
\* the distinct texts of the cells that cover column col, from row r down
CoveringTexts(rows, r, col) ==
    IF r > Len(rows) THEN <<>>
    ELSE LET here == {k \in 1..Len(rows[r]) :
                         Covers(rows, r, k, r, col) /\ Trim(rows[r][k].text) # <<>>}
             below == CoveringTexts(rows, r + 1, col)
         IN IF here = {} THEN below
            ELSE LET text == Trim(rows[r][CHOOSE k \in here : TRUE].text)
                 IN <<text>> \o SelectSeq(below, LAMBDA t : t # text)

\* no header row has a greater sum of column spans than the top row
TopRowWidest ==
    \A r \in 1..Len(probe.headerRows) :
        ColCount(probe.headerRows[r]) <= ColCount(probe.headerRows[1])

\* C18: for header rows none of which is wider than the top row, there are
\* as many headers as the sum of the column spans of the cells of the top
\* row.
C18_HeaderCountIsTopRowWidth ==
    (probe.fn = "processMultiLevelHeaders" /\ TopRowWidest) =>
        Len(probe.headers) = ColCount(probe.headerRows[1])

\* C18 (witness): headers were built from three rows with a column span and
\* a row span in the top row, and there are as many as the top row is wide.
C18_SpannedTopRow ==
    /\ probe.fn = "processMultiLevelHeaders"
    /\ TopRowWidest
    /\ Len(probe.headerRows) = 3
    /\ \E k \in 1..Len(probe.headerRows[1]) : probe.headerRows[1][k].colspan > 1
    /\ \E k \in 1..Len(probe.headerRows[1]) : probe.headerRows[1][k].rowspan > 1
    /\ Len(probe.headers) = 3

\* C19: the header of each column is the distinct texts of the header
\* cells that cover the column, from the top row down, joined with " - ",
\* and "Column n" when no covering cell has text.
C19_HeaderJoinsCoveringTexts ==
    probe.fn = "processMultiLevelHeaders" =>
        \A col \in 1..Len(probe.headers) :
            LET texts == CoveringTexts(probe.headerRows, 1, col)
            IN probe.headers[col] =
                   IF texts = <<>> THEN ColumnName(col)
                   ELSE JoinWith(texts, <<" ", "-", " ">>)

\* C19 (witness): Revenue over two columns above Q1 and Q2 gave the headers
\* "Revenue - Q1" and "Revenue - Q2".
C19_RevenueByQuarter ==
    /\ probe.fn = "processMultiLevelHeaders"
    /\ probe.headerRows = << << Cell(TRUE, 2, 1, Revenue) >>,
                             << Cell(TRUE, 1, 1, Q1), Cell(TRUE, 1, 1, Q2) >> >>
    /\ probe.headers = << Revenue \o <<" ", "-", " ">> \o Q1,
                          Revenue \o <<" ", "-", " ">> \o Q2 >>

\* C20: what _normalizeData returns has no row that is cell by cell the
\* headers it returns, and no two rows with the same fingerprint.
C20_NormalizedRowsUnique ==
    probe.fn = "_normalizeData" =>
        LET rows == probe.cleaned.rows
        IN /\ \A i \in 1..Len(rows) : rows[i] # probe.cleaned.headers
           /\ \A i, j \in 1..Len(rows) : RowKey(rows[i]) = RowKey(rows[j]) => i = j

\* C20 (witness): the headers and one row, seen twice, went in as three
\* rows; the row came out once.
C20_RepeatedRowOnce ==
    /\ probe.fn = "_normalizeData"
    /\ probe.data.headers = <<A, B>>
    /\ probe.data.rows = << <<A, B>>, <<B, A>>, <<B, A>> >>
    /\ probe.cleaned.rows = << <<B, A>> >>

\* the record of allRowsWithPositions that the k-th returned row came from
SampleOf(k) ==
    CHOOSE e \in {probe.allRowsWithPositions[i] : i \in 1..Len(probe.allRowsWithPositions)} :
        e.data = probe.rows[k]

FromRoot(row) ==
    [i \in 1..Len(row) |-> CHOOSE d \in 0..9 : Dec(d) = row[Len(row) + 1 - i]]

RECURSIVE Precedes(_, _)
\* document order of two elements given by their paths from the root: an
\* ancestor before its descendants, otherwise by the first index that differs
Precedes(p, q) ==
    IF p = <<>> THEN q # <<>>
    ELSE IF q = <<>> THEN FALSE
    ELSE IF Head(p) # Head(q) THEN Head(p) < Head(q)
    ELSE Precedes(Tail(p), Tail(q))

\* C22: the rows of the deep scan are in document order: of two matched
\* elements, the row of the one that precedes the other in the document
\* comes first.
C22_DeepScanInDocumentOrder ==
    probe.fn = "performDeepTableScan" =>
        \A i, j \in 1..Len(probe.rows) :
            Precedes(FromRoot(probe.rows[i]), FromRoot(probe.rows[j])) => i < j

\* the results of the strategies that ran and returned one, as they are
\* compared (normalized), in the order they ran: the scroll passes, then the
\* zoom-out simulation and the deep scan
StrategyResults ==
    LET passes == SelectSeq(probe.scrollResults, LAMBDA r : r # Threw)
        others == IF probe.alternatives
                  THEN SelectSeq(<<probe.zoomResult, probe.deepScanResult>>,
                                 LAMBDA r : r.ok)
                  ELSE <<>>
        ran == passes \o others
    IN [i \in 1..Len(ran) |-> NormalizeData(ran[i])]

\* C23: recovery returns the first of the results with the most rows among
\* the results of the strategies that ran, so that a later result replaces
\* an earlier one only with strictly more rows; the zoom-out simulation and
\* the deep scan run only when no scroll pass returned a result or the best
\* of them has fewer than 15 rows.
C23_MostRowsFirstWins ==
    (probe.fn = "extractVirtualizedTableData" /\ StrategyResults # <<>>) =>
        /\ \E k \in 1..Len(StrategyResults) :
              /\ probe.result = StrategyResults[k]
              /\ \A i \in 1..Len(StrategyResults) :
                    /\ Len(StrategyResults[i].rows) <= Len(StrategyResults[k].rows)
                    /\ i < k => Len(StrategyResults[i].rows) < Len(StrategyResults[k].rows)
        /\ probe.alternatives <=>
              \A i \in 1..Len(probe.scrollResults) :
                  \/ probe.scrollResults[i] = Threw
                  \/ Len(NormalizeData(probe.scrollResults[i]).rows) < MinRowsForAlternatives

\* C23 (witness): two scroll passes and the zoom-out simulation returned two
\* rows each, the deep scan three: the result is that of the deep scan.
C23_DeepScanReplacesTie ==
    /\ probe.fn = "extractVirtualizedTableData"
    /\ probe.scrollResults = <<HeaderAgain, Rows(2)>>
    /\ probe.zoomResult = HeaderAgain
    /\ probe.deepScanResult = Rows(3)
    /\ probe.alternatives
    /\ probe.result = Rows(3)

\* C24: when no strategy returned a result with rows, recovery returns the
\* normalized static extraction of the container.
C24_FallsBackToStaticExtraction ==
    (/\ probe.fn = "extractVirtualizedTableData"
     /\ \A i \in 1..Len(StrategyResults) : StrategyResults[i].rows = <<>>)
        => probe.result = NormalizeData(probe.static)

\* C25: once every zoom-out simulation that was started has finished, by
\* return or by exception, the inline transform, transform-origin, width and
\* height of the body are what they were before the first one started.
C25_BodyStyleRestored ==
    (/\ probe.fn = "simulateZoomExtraction"
     /\ \A i \in 1..MaxSimulations : probe.calls[i].pc \in {"idle", "done"})
        => bodyStyle = OriginalStyle

\* C26: every row detectHeaderRowsEnd counts as a header row has cells and
\* is header-like, and there are six of them at most: no other row standing
\* before a header-like row is taken into the headers.
C26_HeaderRowsAreHeaderLike ==
    probe.fn = "detectHeaderRowsEnd" =>
        /\ probe.result <= HeaderScanLimit
        /\ \A i \in 1..probe.result :
              Len(probe.rows[i]) > 0 /\ IsHeaderLike(probe.rows[i])

\* C27: a debounce timeout that fires while a badge scan is in flight starts
\* no scan and sets no new timeout; from then on, and until a mutation is
\* observed, no timeout is pending and no incremental scan starts.
C27_DroppedTimeoutNotRescheduled ==
    [][/\ (debounceTimer /\ ~debounceTimer' /\ isAnalyzing)
            => dropped' /\ UNCHANGED <<isAnalyzing, badgeScan, badge>>
       /\ dropped' => ~debounceTimer'
       /\ dropped => ~(badgeScan # "incremental" /\ badgeScan' = "incremental")]_vars

\* C27 (witness): a timeout was dropped during the initial scan; the scan is
\* over, no mutation was observed since, and nothing is pending.
C27_DroppedAndIdle ==
    /\ dropped
    /\ ~isAnalyzing
    /\ badgeScan = "none"
    /\ ~debounceTimer

\* C28: isAnalyzing is set exactly while the badge scan that set it is in
\* flight: it is cleared when that scan finishes, by return or by exception,
\* and by nothing else, a call that found it set leaves it set; and once set
\* it is eventually cleared.
C28_GuardAlwaysReleased ==
    /\ [][/\ (badgeScan # "none" /\ badgeScan' = "none") => ~isAnalyzing'
          /\ (isAnalyzing /\ ~isAnalyzing') => (badgeScan # "none" /\ badgeScan' = "none")
          /\ (isAnalyzing /\ badgeScan' = badgeScan) => isAnalyzing']_vars
    /\ (isAnalyzing ~> ~isAnalyzing)

\* C28 (witness): a timeout found the guard taken by the initial scan, which
\* is still in flight and still holds it.
C28_GuardKeptByHolder ==
    /\ dropped
    /\ isAnalyzing
    /\ badgeScan = "initial"

\* C29: _normalizeData drops a row only for another row that is equal to it
\* cell by cell: every trimmed row of the input that is not the header row is
\* among the rows kept, with the same number of cells and the same cells.
C29_OnlyEqualRowsDropped ==
    probe.fn = "_normalizeData" =>
        LET headersNorm == NormalizeCells(probe.data.headers)
            kept == probe.cleaned.rows
        IN \A i \in 1..Len(probe.data.rows) :
              LET row == NormalizeCells(probe.data.rows[i])
              IN \/ Len(headersNorm) > 0 /\ EqualsHeaders(row, headersNorm)
                 \/ \E j \in 1..Len(kept) :
                       /\ Len(kept[j]) = Len(row)
                       /\ \A c \in 1..Len(row) : kept[j][c] = row[c]

====
